---- MODULE Spec2Model ----
(***************************************************************************)
(* Todo REST API with user accounts.                                       *)
(*   day6 : src/server.js lines 586-1872 (MongoDB with in-memory fallback) *)
(*   day7 : src/unnamed/part_001 lines 423-1806 with src/sqlite-db.js      *)
(*          (MongoDB with SQLite fallback)                                 *)
(* One run of the model is one run of one of the two servers.  Strings     *)
(* that the code inspects (emails, tasks, passwords) are sequences of      *)
(* characters; ids are tagged by their JavaScript type.                    *)
(***************************************************************************)
EXTENDS Integers, Sequences, FiniteSets, TLC

\* ---------------------------------------------------------------- bounds
MaxInflight == 2      \* requests suspended at an await at the same time
MaxUsers == 2         \* successful registrations in one run
MaxTodos == 2         \* todos created in one run
MaxClock == 1         \* values of the wall clock after 0
MaxEvents == 3        \* registrations, todos created, clock ticks and
                      \* signals in one run, together
MaxShutdowns == 2     \* calls of shutdown in one run

\* ------------------------------------------------------- option values
None == <<>>
Some(v) == <<v>>
IsSome(o) == o # <<>>
Val(o) == o[1]

\* ------------------------------------------------ ids and conversions
\* <<"num",n>> a JS number, <<"str",n>> its decimal string,
\* <<"oid",n>> a MongoDB ObjectId, <<"hex",n>> its 24 character hex string.
Null == <<"null">>
NaN == <<"nan">>
CastError == <<"CastError">>
Num(n) == <<"num", n>>
Str(n) == <<"str", n>>
Oid(n) == <<"oid", n>>
Hex(n) == <<"hex", n>>

\* Number.prototype.toString / ObjectId.prototype.toString
IdToString(id) ==
  CASE id[1] = "num" -> Str(id[2])
    [] id[1] = "oid" -> Hex(id[2])
    [] OTHER -> id

\* parseInt(req.params.id): a decimal string gives its number
ParseInt(s) ==
  CASE s[1] = "str" -> Num(s[2])
    [] s[1] = "num" -> s
    [] OTHER -> NaN

\* jwt.sign followed by jwt.verify: the payload goes through JSON, which
\* turns an ObjectId into its hex string and keeps numbers and strings.
JwtPayloadId(id) ==
  CASE id[1] = "oid" -> Hex(id[2])
    [] OTHER -> id

\* mongoose cast of a query value to ObjectId (findById, {_id: ...})
CastObjectId(v) ==
  CASE v[1] = "oid" -> v
    [] v[1] = "hex" -> Oid(v[2])
    [] OTHER -> CastError

\* SQLite comparison of an INTEGER column with a bound parameter: a number
\* or a numeric text matches the integer it denotes.
SqlIntEq(col, param) ==
  /\ param[1] \in {"num", "str"}
  /\ col = Num(param[2])

\* ------------------------------------------------------------ strings
RECURSIVE TrimLeft(_)
TrimLeft(s) == IF s # <<>> /\ Head(s) = " " THEN TrimLeft(Tail(s)) ELSE s

RECURSIVE TrimRight(_)
TrimRight(s) ==
  IF s # <<>> /\ s[Len(s)] = " " THEN TrimRight(SubSeq(s, 1, Len(s) - 1)) ELSE s

\* String.prototype.trim
Trim(s) == TrimRight(TrimLeft(s))

\* /^\S+@\S+\.\S+$/.test(email)
emailRegexTest(s) ==
  /\ \A k \in 1..Len(s) : s[k] # " "
  /\ \E i \in 2..Len(s) : \E j \in (i + 2)..(Len(s) - 1) :
        s[i] = "@" /\ s[j] = "."

isValidEmail(email) == emailRegexTest(email)

\* a comparison that accepts every password
bcryptCompareAny(pw, hash) == TRUE

\* bcrypt.hash, bcrypt.compare
hashPassword(pw) == <<"hash", pw>>
bcryptCompare(pw, hash) == hash = <<"hash", pw>>

\* ------------------------------------------------------------- inputs
EmailA == <<"a", "@", "x", ".", "y">>
EmailB == <<"b", "@", "x", ".", "y">>
EmailBad == <<"a", "@", "x">>
Pw6 == <<"s", "e", "c", "r", "e", "t">>
Pw5 == <<"s", "e", "c", "r", "e">>
PwOther == <<"o", "t", "h", "e", "r", "s">>
NameAl == <<"A", "l">>
NameBo == <<"B", "o">>
TaskAbc == <<"a", "b", "c">>
TaskAbd == <<" ", "a", "b", "d">>
TaskAb == <<" ", "a", "b", " ">>
Desc == <<" ", "d">>
Due == <<"2", "0", "2", "7">>
Tag == <<"t", " ">>

VARIABLES
  server,            \* "day6" or "day7": which program this run executes
  phase,             \* "starting", "ready" (connectDB has returned),
                     \* "listening", "closing" (server.close was called),
                     \* "closed" (its callback ran), "exited"
  readyState,        \* mongoose.connection.readyState (0 or 1)
  mongoInit,         \* the initial mongoose.connect succeeded
  sqliteDB,          \* day7: sqliteDB !== null
  shutdowns,         \* day7: calls of shutdown so far; each registers a
                     \* callback of server.close and arms a forced-exit timer
  closed,            \* day7: what the callback of server.close found closed
                     \* or closed itself, in that order
  late,              \* day7: that callback ran more than 9 s after the
                     \* first call of shutdown, so that the forced-exit
                     \* timer (10 s) is due before the timer of exit (1 s)
  exitCode,          \* the code of process.exit; -1 while the process runs
  memoryUsers, nextMemoryUserId,
  memoryTodos, nextMemoryId,
  sqlUsers, sqlTodos, sqlUserSeq, sqlTodoSeq,
  mongoUsers, mongoTodos, mongoSeq,
  now,               \* the wall clock read by new Date()
  inflight,          \* requests suspended at an await
  resp,              \* the response sent last
  issued             \* tokens issued by register and login, with their user

stores == <<memoryUsers, nextMemoryUserId, memoryTodos, nextMemoryId,
            sqlUsers, sqlTodos, sqlUserSeq, sqlTodoSeq,
            mongoUsers, mongoTodos, mongoSeq>>

conn == <<server, phase, readyState, mongoInit, sqliteDB, shutdowns, closed, late,
          exitCode>>

vars == <<server, phase, readyState, mongoInit, sqliteDB, shutdowns, closed, late,
          exitCode,
          memoryUsers, nextMemoryUserId, memoryTodos, nextMemoryId,
          sqlUsers, sqlTodos, sqlUserSeq, sqlTodoSeq,
          mongoUsers, mongoTodos, mongoSeq,
          now, inflight, resp, issued>>
\* ------------------------------------------------------------ records
User(id, name, email, password) ==
  [id |-> id, name |-> name, email |-> email, password |-> password,
   role |-> "user", isActive |-> TRUE, lastLogin |-> None]

Todo(id, task, description, completed, priority, dueDate, userId, tags, at) ==
  [id |-> id, task |-> task, description |-> description,
   completed |-> completed, priority |-> priority, dueDate |-> dueDate,
   userId |-> userId, tags |-> tags, createdAt |-> at, updatedAt |-> at]

\* server.js 812-816: the three todos the in-memory list starts with
\* (their tasks shortened to the first three letters)
SeedTodos ==
  << Todo(Num(1), <<"C", "o", "m">>, None, TRUE, "high", None, Null, None,
          None),
     Todo(Num(2), <<"S", "t", "a">>, None, FALSE, "high", None, Null, None,
          None),
     Todo(Num(3), <<"T", "e", "s">>, None, FALSE, "medium", None, Null, None,
          None) >>

NoBody ==
  [name |-> None, email |-> None, password |-> None, confirmPassword |-> None,
   task |-> None, description |-> None, completed |-> None, priority |-> None,
   dueDate |-> None, tags |-> None]

NoToken == [kind |-> "none", id |-> Null]

NoResp ==
  [route |-> "none", status |-> 0, error |-> "", token |-> NoToken,
   user |-> None, handlerRan |-> FALSE, userKeys |-> {}, data |-> <<>>,
   tid |-> Null, body |-> NoBody, dbType |-> "none",
   success |-> FALSE, keys |-> {}, query |-> <<>>, pagination |-> <<>>]

\* the model looks at one response at a time: Sent clears resp before the
\* next step
Quiet == resp = NoResp

\* JavaScript truthiness of an optional string: undefined and "" are falsy
Truthy(o) == IsSome(o) /\ Val(o) # <<>>

\* ---------------------------------------------------- sequence helpers
Indices(seq, P(_)) == {i \in 1..Len(seq) : P(seq[i])}
\* Array.prototype.findIndex: 0 stands for -1
FindIndex(seq, P(_)) ==
  IF Indices(seq, P) = {} THEN 0
  ELSE CHOOSE i \in Indices(seq, P) : \A j \in Indices(seq, P) : i <= j
\* Array.prototype.find, a SELECT of one row, Model.findOne
Find(seq, P(_)) ==
  IF FindIndex(seq, P) = 0 THEN None ELSE Some(seq[FindIndex(seq, P)])
\* Array.prototype.splice(index): the element and all that follow it
RemoveFrom(seq, i) == SubSeq(seq, 1, i - 1)

\* Array.prototype.splice(index, 1)
RemoveAt(seq, i) == SubSeq(seq, 1, i - 1) \o SubSeq(seq, i + 1, Len(seq))
Filter(seq, P(_)) == SelectSeq(seq, P)

\* ------------------------------------------------------------ startup
\* server.js 808-809
canUseDB6 == readyState = 1

\* part_001 572-584
canUseDB ==
  IF readyState = 1 THEN [type |-> "mongodb", connected |-> TRUE]
  ELSE IF sqliteDB THEN [type |-> "sqlite", connected |-> TRUE]
  ELSE [type |-> "none", connected |-> FALSE]

\* An account whose role was set to admin in the database: the role field
\* (part_001 614-618, sqlite-db.js 20) is written by no route.
AdminUser(id) ==
  [User(id, NameAl, EmailA, hashPassword(Pw6)) EXCEPT !.role = "admin"]

\* The databases outlive the process: a run of day7 starts with empty
\* databases, or with one in which an earlier run left the admin account.
Seeds == {"none", "mongodb", "sqlite"}

Init ==
  /\ server \in {"day6", "day7"}
  /\ phase = "starting"
  /\ readyState = 0
  /\ mongoInit = FALSE
  /\ sqliteDB = FALSE
  /\ shutdowns = 0
  /\ closed = <<>>
  /\ late = FALSE
  /\ exitCode = -1
  /\ memoryUsers = <<>>
  /\ nextMemoryUserId = 1
  /\ memoryTodos = IF server = "day6" THEN SeedTodos ELSE <<>>
  /\ nextMemoryId = 4
  /\ \E seed \in (IF server = "day7" THEN Seeds ELSE {"none"}) :
       /\ sqlUsers = IF seed = "sqlite" THEN <<AdminUser(Num(1))>> ELSE <<>>
       /\ sqlUserSeq = IF seed = "sqlite" THEN 1 ELSE 0
       /\ mongoUsers = IF seed = "mongodb" THEN <<AdminUser(Oid(1))>> ELSE <<>>
       /\ mongoSeq = IF seed = "mongodb" THEN 1 ELSE 0
  /\ sqlTodos = <<>>
  /\ sqlTodoSeq = 0
  /\ mongoTodos = <<>>
  /\ now = 0
  /\ inflight = <<>>
  /\ resp = NoResp
  /\ issued = {}

Outcomes == {"connected", "failed", "nouri"}

\* app.listen called without waiting for connectDB
ListenAtOnce == "starting"

\* the phase in which start (server.js 1861-1867) and startServer (part_001
\* 1738-1760) call app.listen: after await connectDB()
ListenFrom == "ready"

\* server.js 599-612: connectDB catches the missing URI and the failed
\* connection and returns
Start6(outcome) ==
  /\ server = "day6"
  /\ phase = "starting"
  /\ readyState' = IF outcome = "connected" THEN 1 ELSE 0
  /\ mongoInit' = (outcome = "connected")
  /\ phase' = "ready"
  /\ UNCHANGED <<server, sqliteDB, shutdowns, closed, late, exitCode, stores, now,
                 inflight, resp, issued>>

\* server.js 1861-1867: start, after await connectDB()
start ==
  /\ server = "day6"
  /\ phase = ListenFrom
  /\ phase' = "listening"
  /\ UNCHANGED <<server, readyState, mongoInit, sqliteDB, shutdowns, closed, late,
                 exitCode, stores, now, inflight, resp, issued>>

\* part_001 529-569: without a URI, or when connecting fails, the SQLite
\* singleton is created; connectDB returns true on every path
connectDB(outcome) ==
  /\ server = "day7"
  /\ phase = "starting"
  /\ readyState' = IF outcome = "connected" THEN 1 ELSE 0
  /\ mongoInit' = (outcome = "connected")
  /\ sqliteDB' = (outcome # "connected")
  /\ phase' = "ready"
  /\ UNCHANGED <<server, shutdowns, closed, late, exitCode, stores, now, inflight,
                 resp, issued>>

\* part_001 1738-1760: startServer, after await connectDB().  dbConnected
\* is true, so process.exit(1) of line 1745 is not reached.
startServer ==
  /\ server = "day7"
  /\ phase = ListenFrom
  /\ phase' = "listening"
  /\ UNCHANGED <<server, readyState, mongoInit, sqliteDB, shutdowns, closed, late,
                 exitCode, stores, now, inflight, resp, issued>>

\* mongoose sets readyState to 0 when an established connection is lost
MongoDisconnected ==
  /\ phase = "listening" /\ Quiet
  /\ readyState = 1
  /\ readyState' = 0
  /\ UNCHANGED <<server, phase, mongoInit, sqliteDB, shutdowns, closed, late,
                 exitCode, stores, now, inflight,
                 resp, issued>>

\* ... and back to 1 when the driver reconnects; a connection whose first
\* attempt failed is not retried
MongoReconnected ==
  /\ phase = "listening" /\ Quiet
  /\ mongoInit
  /\ readyState = 0
  /\ readyState' = 1
  /\ UNCHANGED <<server, phase, mongoInit, sqliteDB, shutdowns, closed, late,
                 exitCode, stores, now, inflight,
                 resp, issued>>

TotalUsers == Len(memoryUsers) + Len(sqlUsers) + Len(mongoUsers)
PendingRegs == Cardinality(Indices(inflight, LAMBDA r : r.route = "register"))
\* todos created so far: every store numbers them as it creates them
TotalTodos ==
  (nextMemoryId - 4) + sqlTodoSeq + (mongoSeq - Len(mongoUsers))
Events == TotalUsers + PendingRegs + TotalTodos + now + shutdowns

\* the wall clock advances
Tick ==
  /\ Quiet
  /\ now < MaxClock
  /\ Events < MaxEvents
  /\ now' = now + 1
  /\ UNCHANGED <<conn, stores, inflight, resp, issued>>
\* ---------------------------------------------------------- responses
\* top-level keys of the JSON body a route of day6 sends when it succeeds
\* (server.js 1031-1044, 1128-1140, 1176-1196, 1221-1224, 1373-1408,
\* 1446-1476, 1503-1531, 1549-1574)
SuccessKeys6(route) ==
  CASE route \in {"register", "login"} -> {"success", "message", "data"}
    [] route = "profile" -> {"success", "data"}
    [] route = "logout" -> {"success", "message"}
    [] route = "createTodo" -> {"success", "message", "source", "user", "data"}
    [] route \in {"updateTodo", "deleteTodo"} ->
         {"success", "message", "source", "data"}
    [] route = "myTodos" -> {"success", "source", "count", "user", "data"}
    [] route = "todos6" -> {"success", "source", "count", "data"}
    [] route = "todo6" -> {"success", "source", "data"}
    [] OTHER -> {"success"}

\* ... and a route of day7 (part_001 929-937, 1004-1012, 1021-1024,
\* 1056-1060, 1068-1071, 1114-1118, 1172-1181, 1211-1214, 1269-1273,
\* 1300-1303, 1345-1348, 1366-1370, 1386-1390)
SuccessKeys7(route) ==
  CASE route \in {"register", "login", "putProfile", "createTodo",
                  "updateTodo"} -> {"success", "message", "data"}
    [] route \in {"getProfile", "getTodo", "stats"} -> {"success", "data"}
    [] route \in {"logout", "deleteTodo"} -> {"success", "message"}
    [] route = "listTodos" -> {"success", "data", "pagination"}
    [] route \in {"adminUsers", "adminTodos"} -> {"success", "count", "data"}
    [] OTHER -> {"success"}

\* res.status(status).json(...): an error body is {success: false, error}
\* (errorHandler, part_001 734-738, adds the stack outside production)
Reply(route, status, error) ==
  [NoResp EXCEPT !.route = route, !.status = status, !.error = error,
                 !.success = (error = ""),
                 !.keys = IF error # "" THEN {"success", "error"}
                          ELSE IF server = "day6" THEN SuccessKeys6(route)
                          ELSE SuccessKeys7(route)]

\* keys of the stored user objects
MemoryUserKeys ==
  {"id", "name", "email", "password", "role", "createdAt", "lastLogin"}
SqlUserColumns ==
  {"id", "name", "email", "password", "role", "isActive", "createdAt",
   "lastLogin"}
MongoUserPaths ==
  {"_id", "name", "email", "password", "role", "isActive", "createdAt",
   "updatedAt", "lastLogin", "__v"}

\* the user object sent as it was loaded
WithPassword(keys) == keys

\* const { password: _, ...userWithoutPassword } = user; delete user.password
WithoutPassword(keys) == keys \ {"password"}

\* a mongoose query result: password has select: false in the schema
MongoSelected(plusPassword) ==
  IF plusPassword THEN MongoUserPaths ELSE MongoUserPaths \ {"password"}

\* userSchema.methods.toJSON (server.js 651-655, part_001 635-640)
UserToJSON(keys) == (keys \ {"password"}) \ {"__v"}

\* generateToken (server.js 921-927, part_001 695-701): a signed token
\* that carries the id as the JWT payload delivers it
generateToken(userId) == [kind |-> "valid", id |-> JwtPayloadId(userId)]

Issue(userId, store, user) ==
  [token |-> generateToken(userId), store |-> store, uid |-> user.id,
   email |-> user.email]

RoomForUser ==
  /\ TotalUsers + PendingRegs < MaxUsers
  /\ Events < MaxEvents

Request(route, token, tid, body, dbType, user, pc) ==
  [route |-> route, token |-> token, tid |-> tid, body |-> body,
   dbType |-> dbType, user |-> user, pc |-> pc]

\* the server takes a request once it listens
Accept == phase = "listening" /\ Quiet

\* server.close (part_001 1765) lets the requests it has taken finish
Draining == phase \in {"listening", "closing"}

UserByEmail(seq, e) == Find(seq, LAMBDA u : u.email = e)

\* a validation without the email format check
RegisterErrorAnyEmail(b, dot) ==
  IF ~Truthy(b.name) \/ ~Truthy(b.email) \/ ~Truthy(b.password)
     \/ ~Truthy(b.confirmPassword)
  THEN "All fields are required" \o dot
  ELSE IF Val(b.password) # Val(b.confirmPassword)
  THEN "Passwords do not match" \o dot
  ELSE IF Len(Val(b.password)) < 6
  THEN "Password must be at least 6 characters" \o dot
  ELSE ""

\* validation shared by POST /api/register (server.js 941-970) and
\* POST /api/auth/register (part_001 843-870); "" when the body passes
RegisterError(b, dot) ==
  IF ~Truthy(b.name) \/ ~Truthy(b.email) \/ ~Truthy(b.password)
     \/ ~Truthy(b.confirmPassword)
  THEN "All fields are required" \o dot
  ELSE IF Val(b.password) # Val(b.confirmPassword)
  THEN "Passwords do not match" \o dot
  ELSE IF Len(Val(b.password)) < 6
  THEN "Password must be at least 6 characters" \o dot
  ELSE IF ~isValidEmail(Val(b.email))
  THEN "Please enter a valid email address" \o dot
  ELSE ""

RegBody(name, email, pw, confirm) ==
  [NoBody EXCEPT !.name = name, !.email = email, !.password = pw,
                 !.confirmPassword = confirm]

RegisterBodies ==
  { RegBody(Some(NameAl), Some(EmailA), Some(Pw6), Some(Pw6)),
    RegBody(Some(NameAl), Some(EmailB), Some(Pw6), Some(Pw6)),
    RegBody(None, Some(EmailA), Some(Pw6), Some(Pw6)),
    RegBody(Some(NameAl), Some(EmailA), Some(Pw6), Some(PwOther)),
    RegBody(Some(NameAl), Some(EmailA), Some(Pw5), Some(Pw5)),
    RegBody(Some(NameAl), Some(EmailBad), Some(Pw6), Some(Pw6)) }

\* ----------------------------------------------- day6: POST /api/register
\* server.js 936-1018: validation and the existence check, up to
\* await hashPassword
Register6(b) ==
  /\ server = "day6"
  /\ Accept
  /\ LET err == RegisterError(b, "")
         dbType == IF canUseDB6 THEN "mongodb" ELSE "memory"
         existing == IF canUseDB6 THEN UserByEmail(mongoUsers, Val(b.email))
                     ELSE UserByEmail(memoryUsers, Val(b.email))
     IN IF err # ""
        THEN /\ resp' = [Reply("register", 400, err) EXCEPT !.body = b]
             /\ UNCHANGED inflight
        ELSE IF IsSome(existing)
        THEN /\ resp' = [Reply("register", 409,
                               "User with this email already exists")
                           EXCEPT !.body = b, !.dbType = dbType]
             /\ UNCHANGED inflight
        ELSE /\ RoomForUser
             /\ Len(inflight) < MaxInflight
             /\ inflight' = Append(inflight,
                   Request("register", NoToken, Null, b, dbType, None, "hash"))
             /\ UNCHANGED resp
  /\ UNCHANGED <<conn, stores, now, issued>>

\* server.js 984-1008: MongoDB branch after the hash.  The unique index on
\* email rejects a second document; a dropped connection fails the insert.
Register6Mongo(i) ==
  /\ Draining /\ Quiet
  /\ server = "day6"
  /\ i \in 1..Len(inflight)
  /\ inflight[i].route = "register" /\ inflight[i].dbType = "mongodb"
  /\ LET b == inflight[i].body
         user == [User(Oid(mongoSeq + 1), Val(b.name), Val(b.email),
                       hashPassword(Val(b.password)))
                    EXCEPT !.lastLogin = Some(now)]
     IN /\ inflight' = RemoveAt(inflight, i)
        /\ IF readyState # 1
           THEN /\ resp' = [Reply("register", 500, "buffering timed out")
                              EXCEPT !.body = b, !.dbType = "mongodb"]
                /\ UNCHANGED <<mongoUsers, mongoSeq, issued>>
           ELSE IF IsSome(UserByEmail(mongoUsers, Val(b.email)))
           THEN /\ resp' = [Reply("register", 500, "E11000 duplicate key")
                              EXCEPT !.body = b, !.dbType = "mongodb"]
                /\ UNCHANGED <<mongoUsers, mongoSeq, issued>>
           ELSE /\ mongoUsers' = Append(mongoUsers, user)
                /\ mongoSeq' = mongoSeq + 1
                /\ issued' = issued \cup {Issue(user.id, "mongodb", user)}
                /\ resp' = [Reply("register", 201, "")
                              EXCEPT !.body = b, !.dbType = "mongodb",
                                     !.token = generateToken(user.id),
                                     !.userKeys = {"id", "name", "email", "role"}]
  /\ UNCHANGED <<conn, memoryUsers, nextMemoryUserId, memoryTodos, nextMemoryId,
                 sqlUsers, sqlTodos, sqlUserSeq, sqlTodoSeq, mongoTodos,
                 now>>

\* server.js 1020-1044: in-memory branch after the hash
Register6Memory(i) ==
  /\ Draining /\ Quiet
  /\ server = "day6"
  /\ i \in 1..Len(inflight)
  /\ inflight[i].route = "register" /\ inflight[i].dbType = "memory"
  /\ LET b == inflight[i].body
         newUser == [User(Num(nextMemoryUserId), Val(b.name), Val(b.email),
                          hashPassword(Val(b.password)))
                       EXCEPT !.lastLogin = Some(now)]
     IN /\ inflight' = RemoveAt(inflight, i)
        /\ nextMemoryUserId' = nextMemoryUserId + 1
        /\ memoryUsers' = Append(memoryUsers, newUser)
        /\ issued' = issued \cup
               {Issue(IdToString(newUser.id), "memory", newUser)}
        /\ resp' = [Reply("register", 201, "")
                      EXCEPT !.body = b, !.dbType = "memory",
                             !.token = generateToken(IdToString(newUser.id)),
                             !.userKeys = WithoutPassword(MemoryUserKeys)]
  /\ UNCHANGED <<conn, memoryTodos, nextMemoryId, sqlUsers, sqlTodos,
                 sqlUserSeq, sqlTodoSeq, mongoUsers, mongoTodos, mongoSeq,
                 now>>
\* ------------------------------------------ day7: POST /api/auth/register
\* part_001 839-897: validation, canUseDB and the existence check (in the
\* store canUseDB named), up to await hashPassword.  findUserByEmail
\* (sqlite-db.js 94-105) sees active users only.
register(b) ==
  /\ server = "day7"
  /\ Accept
  /\ LET err == RegisterError(b, ".")
         dbStatus == canUseDB
         existingUser ==
           IF dbStatus.type = "mongodb"
           THEN UserByEmail(mongoUsers, Val(b.email))
           ELSE Find(sqlUsers,
                     LAMBDA u : u.email = Val(b.email) /\ u.isActive)
     IN IF err # ""
        THEN /\ resp' = [Reply("register", 400, err) EXCEPT !.body = b]
             /\ UNCHANGED inflight
        ELSE IF ~dbStatus.connected
        THEN /\ resp' = [Reply("register", 503,
                               "Database service unavailable.")
                           EXCEPT !.body = b]
             /\ UNCHANGED inflight
        ELSE IF IsSome(existingUser)
        THEN /\ resp' = [Reply("register", 409,
                               "User with this email already exists.")
                           EXCEPT !.body = b, !.dbType = dbStatus.type]
             /\ UNCHANGED inflight
        ELSE /\ RoomForUser
             /\ Len(inflight) < MaxInflight
             /\ inflight' = Append(inflight,
                   Request("register", NoToken, Null, b, dbStatus.type, None,
                           "hash"))
             /\ UNCHANGED resp
  /\ UNCHANGED <<conn, stores, now, issued>>

\* part_001 901-908, 919-937: User.create, toObject (which carries the
\* password), the token, delete user.password
registerMongo(i) ==
  /\ Draining /\ Quiet
  /\ server = "day7"
  /\ i \in 1..Len(inflight)
  /\ inflight[i].route = "register" /\ inflight[i].dbType = "mongodb"
  /\ LET b == inflight[i].body
         user == User(Oid(mongoSeq + 1), Val(b.name), Val(b.email),
                      hashPassword(Val(b.password)))
     IN /\ inflight' = RemoveAt(inflight, i)
        /\ IF readyState # 1
           THEN /\ resp' = [Reply("register", 500, "buffering timed out")
                              EXCEPT !.body = b, !.dbType = "mongodb"]
                /\ UNCHANGED <<mongoUsers, mongoSeq, issued>>
           ELSE IF IsSome(UserByEmail(mongoUsers, Val(b.email)))
           THEN /\ resp' = [Reply("register", 500, "E11000 duplicate key")
                              EXCEPT !.body = b, !.dbType = "mongodb"]
                /\ UNCHANGED <<mongoUsers, mongoSeq, issued>>
           ELSE /\ mongoUsers' = Append(mongoUsers, user)
                /\ mongoSeq' = mongoSeq + 1
                /\ issued' = issued \cup
                     {Issue(IdToString(user.id), "mongodb", user)}
                /\ resp' = [Reply("register", 201, "")
                              EXCEPT !.body = b, !.dbType = "mongodb",
                                     !.token = generateToken(IdToString(user.id)),
                                     !.userKeys =
                                        WithoutPassword(MongoUserPaths \cup {"id"})]
  /\ UNCHANGED <<conn, memoryUsers, nextMemoryUserId, memoryTodos, nextMemoryId,
                 sqlUsers, sqlTodos, sqlUserSeq, sqlTodoSeq, mongoTodos,
                 now>>

\* SQLiteDB.createUser (sqlite-db.js 65-92): INSERT under the UNIQUE
\* constraint on email; the resolved object has no password
createUserKeys == {"id", "name", "email", "role", "isActive", "createdAt"}

\* part_001 909-937 with sqlite-db.js 65-92 and 120-131
registerSqlite(i) ==
  /\ Draining /\ Quiet
  /\ server = "day7"
  /\ i \in 1..Len(inflight)
  /\ inflight[i].route = "register" /\ inflight[i].dbType = "sqlite"
  /\ LET b == inflight[i].body
         user == [User(Num(sqlUserSeq + 1), Val(b.name), Val(b.email),
                       hashPassword(Val(b.password)))
                    EXCEPT !.lastLogin = Some(now)]
     IN /\ inflight' = RemoveAt(inflight, i)
        /\ IF IsSome(UserByEmail(sqlUsers, Val(b.email)))
           THEN /\ resp' = [Reply("register", 500,
                                  "User with this email already exists.")
                              EXCEPT !.body = b, !.dbType = "sqlite"]
                /\ UNCHANGED <<sqlUsers, sqlUserSeq, issued>>
           ELSE /\ sqlUsers' = Append(sqlUsers, user)
                /\ sqlUserSeq' = sqlUserSeq + 1
                /\ issued' = issued \cup {Issue(user.id, "sqlite", user)}
                /\ resp' = [Reply("register", 201, "")
                              EXCEPT !.body = b, !.dbType = "sqlite",
                                     !.token = generateToken(user.id),
                                     !.userKeys = WithoutPassword(createUserKeys)]
  /\ UNCHANGED <<conn, memoryUsers, nextMemoryUserId, memoryTodos, nextMemoryId,
                 sqlTodos, sqlTodoSeq, mongoUsers, mongoTodos, mongoSeq,
                 now>>

\* ------------------------------------------------------------- login
LoginBody(email, pw) == [NoBody EXCEPT !.email = email, !.password = pw]

LoginBodies ==
  { LoginBody(Some(EmailA), Some(Pw6)),
    LoginBody(Some(EmailB), Some(Pw6)),
    LoginBody(Some(EmailA), Some(PwOther)),
    LoginBody(Some(EmailA), None) }

\* replace the element at index i
SetAt(seq, i, v) == [seq EXCEPT ![i] = v]

\* server.js 1058-1147: POST /api/login
Login6(b) ==
  /\ server = "day6"
  /\ Accept
  /\ LET dbType == IF canUseDB6 THEN "mongodb" ELSE "memory"
         list == IF canUseDB6 THEN mongoUsers ELSE memoryUsers
         idx == FindIndex(list, LAMBDA u : u.email = Val(b.email))
         user == list[idx]
         tokenId == IF canUseDB6 THEN user.id ELSE IdToString(user.id)
         updated == SetAt(list, idx, [user EXCEPT !.lastLogin = Some(now)])
     IN IF ~Truthy(b.email) \/ ~Truthy(b.password)
        THEN /\ resp' = [Reply("login", 400, "Email and password are required")
                           EXCEPT !.body = b]
             /\ UNCHANGED <<memoryUsers, mongoUsers, issued>>
        ELSE IF idx = 0 \/ ~bcryptCompare(Val(b.password), user.password)
        THEN /\ resp' = [Reply("login", 401, "Invalid credentials")
                           EXCEPT !.body = b, !.dbType = dbType]
             /\ UNCHANGED <<memoryUsers, mongoUsers, issued>>
        ELSE /\ IF canUseDB6
                THEN mongoUsers' = updated /\ UNCHANGED memoryUsers
                ELSE memoryUsers' = updated /\ UNCHANGED mongoUsers
             /\ issued' = issued \cup {Issue(tokenId, dbType, user)}
             /\ resp' = [Reply("login", 200, "")
                           EXCEPT !.body = b, !.dbType = dbType,
                                  !.token = generateToken(tokenId),
                                  !.userKeys =
                                     IF canUseDB6
                                     THEN {"id", "name", "email", "role",
                                           "lastLogin"}
                                     ELSE WithoutPassword(MemoryUserKeys)]
  /\ UNCHANGED <<conn, nextMemoryUserId, memoryTodos, nextMemoryId,
                 sqlUsers, sqlTodos, sqlUserSeq, sqlTodoSeq, mongoTodos,
                 mongoSeq, now, inflight>>

\* part_001 944-1016: POST /api/auth/login
login(b) ==
  /\ server = "day7"
  /\ Accept
  /\ LET dbStatus == canUseDB
         mongo == dbStatus.type = "mongodb"
         list == IF mongo THEN mongoUsers ELSE sqlUsers
         idx == FindIndex(list, LAMBDA u : u.email = Val(b.email)
                                          /\ (mongo \/ u.isActive))
         user == list[idx]
         updated == SetAt(list, idx, [user EXCEPT !.lastLogin = Some(now)])
         loaded == IF mongo THEN MongoSelected(TRUE) ELSE SqlUserColumns
         keys == IF "_id" \in loaded
                 THEN (WithoutPassword(loaded) \cup {"id"}) \ {"_id"}
                 ELSE WithoutPassword(loaded)
     IN IF ~Truthy(b.email) \/ ~Truthy(b.password)
        THEN /\ resp' = [Reply("login", 400, "Email and password are required.")
                           EXCEPT !.body = b]
             /\ UNCHANGED <<sqlUsers, mongoUsers, issued>>
        ELSE IF ~dbStatus.connected
        THEN /\ resp' = [Reply("login", 503, "Database service unavailable.")
                           EXCEPT !.body = b]
             /\ UNCHANGED <<sqlUsers, mongoUsers, issued>>
        ELSE IF idx = 0 \/ ~bcryptCompare(Val(b.password), user.password)
        THEN /\ resp' = [Reply("login", 401, "Invalid credentials.")
                           EXCEPT !.body = b, !.dbType = dbStatus.type]
             /\ UNCHANGED <<sqlUsers, mongoUsers, issued>>
        ELSE /\ IF mongo
                THEN mongoUsers' = updated /\ UNCHANGED sqlUsers
                ELSE sqlUsers' = updated /\ UNCHANGED mongoUsers
             /\ issued' = issued \cup {Issue(user.id, dbStatus.type, user)}
             /\ resp' = [Reply("login", 200, "")
                           EXCEPT !.body = b, !.dbType = dbStatus.type,
                                  !.token = generateToken(user.id),
                                  !.userKeys = keys]
  /\ UNCHANGED <<conn, memoryUsers, nextMemoryUserId, memoryTodos,
                 nextMemoryId, sqlTodos, sqlUserSeq, sqlTodoSeq, mongoTodos,
                 mongoSeq, now, inflight>>
\* -------------------------------------------------------------- tokens
\* A well-signed token outlives the run that issued it (expiresIn 7d), so
\* a request may present a well-signed token with any id of either shape.
TokenIds ==
  IF server = "day6"
  THEN {Str(n) : n \in 1..MaxUsers} \cup {Hex(n) : n \in 1..MaxUsers}
  ELSE {Num(n) : n \in 1..MaxUsers} \cup {Hex(n) : n \in 1..MaxUsers}

\* no token, a token that does not verify, the first user's token after
\* its expiry, and the well-signed tokens
Tokens ==
  {NoToken, [kind |-> "malformed", id |-> Null]}
    \cup {[kind |-> "expired", id |-> Hex(1)]}
    \cup {[kind |-> "valid", id |-> x] : x \in TokenIds}

\* jwt.verify: the name of the error it throws, "" when it returns
jwtVerify(token) ==
  CASE token.kind = "malformed" -> "JsonWebTokenError"
    [] token.kind = "expired" -> "TokenExpiredError"
    [] OTHER -> ""

UserById(seq, id) == Find(seq, LAMBDA u : u.id = id)

Verdict(status, error, user, pending, dbType) ==
  [status |-> status, error |-> error, user |-> user, pending |-> pending,
   dbType |-> dbType]

\* ------------------------------------------------------- day6: protect
\* server.js 1228-1281.  status 0: next() is called with req.user = user;
\* pending: the middleware awaited User.findById first.
protect6(token) ==
  IF token.kind = "none"
  THEN Verdict(401, "Not authorized, no token provided", None, FALSE, "none")
  ELSE IF jwtVerify(token) = "JsonWebTokenError"
  THEN Verdict(401, "Invalid token", None, FALSE, "none")
  ELSE IF jwtVerify(token) = "TokenExpiredError"
  THEN Verdict(401, "Token expired", None, FALSE, "none")
  ELSE IF canUseDB6
  THEN IF CastObjectId(token.id) = CastError
       THEN Verdict(401, "Not authorized", None, FALSE, "mongodb")
       ELSE IF UserById(mongoUsers, CastObjectId(token.id)) = None
       THEN Verdict(401, "User not found or token invalid", None, FALSE,
                    "mongodb")
       ELSE Verdict(0, "", UserById(mongoUsers, CastObjectId(token.id)), TRUE,
                    "mongodb")
  ELSE LET u == Find(memoryUsers, LAMBDA m : IdToString(m.id) = token.id)
       IN IF u = None
          THEN Verdict(401, "User not found or token invalid", None, FALSE,
                       "memory")
          ELSE Verdict(0, "", u, FALSE, "memory")

Rejected(route, v, token, tid, b) ==
  [Reply(route, v.status, v.error)
     EXCEPT !.token = token, !.tid = tid, !.body = b, !.dbType = v.dbType]

\* the response of a handler that ran for request r
Answer(r, status, error) ==
  [Reply(r.route, status, error)
     EXCEPT !.token = r.token, !.tid = r.tid, !.body = r.body,
            !.user = r.user, !.handlerRan = TRUE, !.dbType = r.dbType]

\* a handler that forgets who asked
userId6Nobody(user, up) == Null

\* const userId = canUseDB() ? req.user._id : req.user.id   (server.js 1363)
\* a mongoose document has _id and the virtual id (its hex string); an
\* in-memory user has id only
userId6(user, up) ==
  IF up
  THEN (IF user.id[1] = "oid" THEN user.id ELSE Null)
  ELSE (IF user.id[1] = "oid" THEN IdToString(user.id) ELSE user.id)

TodoBody(task, completed, priority) ==
  [NoBody EXCEPT !.task = task, !.completed = completed,
                 !.priority = priority]

CreateBodies ==
  { TodoBody(Some(TaskAbd), None, None),
    TodoBody(Some(TaskAb), None, None),
    TodoBody(None, None, Some("low")),
    TodoBody(Some(TaskAbc), None, Some("urgent")) }

UpdateBodies ==
  { TodoBody(None, Some(TRUE), Some("low")),
    TodoBody(Some(TaskAb), None, None),
    TodoBody(Some(<<>>), None, None),
    [TodoBody(Some(TaskAbc), None, None)
       EXCEPT !.description = Some(Desc), !.dueDate = Some(Due),
              !.tags = Some(<<Tag>>)] }

ProfileBodies ==
  { [NoBody EXCEPT !.name = Some(NameBo)],
    [NoBody EXCEPT !.name = Some(<<"B", " ">>)] }

Priorities == {"low", "medium", "high"}

\* the todo id in the URL: the id of a stored todo as a client writes it,
\* or one of two fixed ids
StoredTodoIds ==
  {IdToString(memoryTodos[k].id) : k \in 1..Len(memoryTodos)}
    \cup {IdToString(sqlTodos[k].id) : k \in 1..Len(sqlTodos)}
    \cup {IdToString(mongoTodos[k].id) : k \in 1..Len(mongoTodos)}
\* ... or the id of a todo that was stored once: every store numbers its
\* todos as it creates them and gives no number twice
FormerTodoIds ==
  {Str(n) : n \in 4..(nextMemoryId - 1)}
    \cup {Str(n) : n \in 1..sqlTodoSeq}
    \cup {Hex(n) : n \in 1..mongoSeq}
TodoIds == {Str(1), Hex(1)} \cup StoredTodoIds \cup FormerTodoIds

\* mongoose validation of a Todo (server.js 660-689, part_001 645-682):
\* task trimmed and at least 3 long, priority in the enum
TodoValid(task, priority) ==
  Len(Trim(task)) >= 3 /\ priority \in Priorities

RoomForTodo ==
  /\ TotalTodos < MaxTodos
  /\ Events < MaxEvents

\* server.js 1350-1418: POST /api/todos after protect
CreateTodo6(r, up) ==
  LET b == r.body
      priority == IF IsSome(b.priority) THEN Val(b.priority) ELSE "medium"
      userId == userId6(Val(r.user), up)
      doc == Todo(Oid(mongoSeq + 1), Trim(Val(b.task)), None, FALSE, priority,
                  None, userId, None, Some(now))
      newTodo == Todo(Num(nextMemoryId), Trim(Val(b.task)), None, FALSE,
                      priority, None, userId, None, Some(now))
  IN IF ~Truthy(b.task) \/ Len(Trim(Val(b.task))) < 3
     THEN /\ resp' = Answer(r, 400,
                 "Task is required and must be at least 3 characters")
          /\ UNCHANGED <<memoryTodos, nextMemoryId, mongoTodos, mongoSeq>>
     ELSE IF up
     THEN IF ~TodoValid(doc.task, doc.priority)
          THEN /\ resp' = Answer(r, 500, "Todo validation failed")
               /\ UNCHANGED <<memoryTodos, nextMemoryId, mongoTodos, mongoSeq>>
          ELSE /\ RoomForTodo
               /\ mongoTodos' = Append(mongoTodos, doc)
               /\ mongoSeq' = mongoSeq + 1
               /\ resp' = [Answer(r, 201, "")
                             EXCEPT !.data = <<doc>>,
                                    !.userKeys = {"id", "name", "email"}]
               /\ UNCHANGED <<memoryTodos, nextMemoryId>>
     ELSE /\ RoomForTodo
          /\ memoryTodos' = Append(memoryTodos, newTodo)
          /\ nextMemoryId' = nextMemoryId + 1
          /\ resp' = [Answer(r, 201, "")
                        EXCEPT !.data = <<newTodo>>,
                               !.userKeys = {"id", "name", "email"}]
          /\ UNCHANGED <<mongoTodos, mongoSeq>>

\* an update that writes all three fields, a default where the body has none
ReplaceAll6(t, b) ==
  [t EXCEPT !.task = IF IsSome(b.task) THEN Trim(Val(b.task)) ELSE @,
            !.completed = IF IsSome(b.completed) THEN Val(b.completed)
                          ELSE FALSE,
            !.priority = IF IsSome(b.priority) THEN Val(b.priority)
                         ELSE "medium",
            !.updatedAt = Some(now)]

\* the assignments of server.js 1466-1469
ApplyUpdate6(t, b) ==
  [t EXCEPT !.task = IF IsSome(b.task) THEN Trim(Val(b.task)) ELSE @,
            !.completed = IF IsSome(b.completed) THEN Val(b.completed) ELSE @,
            !.priority = IF IsSome(b.priority) THEN Val(b.priority) ELSE @,
            !.updatedAt = Some(now)]

\* a filter that forgets the owner: {_id}
IndexById(seq, id, userId) == FindIndex(seq, LAMBDA t : t.id = id)

\* the todo a Mongo filter {_id, user} or a memory findIndex selects
OwnedIndex(seq, id, userId) ==
  FindIndex(seq, LAMBDA t : t.id = id /\ t.userId = userId)

\* server.js 1421-1484: PUT /api/todos/:id after protect
UpdateTodo6(r, up) ==
  LET b == r.body
      userId == userId6(Val(r.user), up)
      mi == OwnedIndex(mongoTodos, CastObjectId(r.tid), userId)
      index == OwnedIndex(memoryTodos, ParseInt(r.tid), userId)
      updated == ApplyUpdate6(mongoTodos[mi], b)
  IN IF up
     THEN IF CastObjectId(r.tid) = CastError
             \/ (IsSome(b.task) /\ Len(Trim(Val(b.task))) < 3)
             \/ (IsSome(b.priority) /\ Val(b.priority) \notin Priorities)
          THEN /\ resp' = Answer(r, 500, "Validation failed")
               /\ UNCHANGED <<memoryTodos, nextMemoryId, mongoTodos, mongoSeq>>
          ELSE IF mi = 0
          THEN /\ resp' = Answer(r, 404,
                      "Todo not found or not authorized to update")
               /\ UNCHANGED <<memoryTodos, nextMemoryId, mongoTodos, mongoSeq>>
          ELSE /\ mongoTodos' = SetAt(mongoTodos, mi, updated)
               /\ resp' = [Answer(r, 200, "") EXCEPT !.data = <<updated>>]
               /\ UNCHANGED <<memoryTodos, nextMemoryId, mongoSeq>>
     ELSE IF index = 0
     THEN /\ resp' = Answer(r, 404,
                 "Todo not found or not authorized to update")
          /\ UNCHANGED <<memoryTodos, nextMemoryId, mongoTodos, mongoSeq>>
     ELSE /\ memoryTodos' =
               SetAt(memoryTodos, index, ApplyUpdate6(memoryTodos[index], b))
          /\ resp' = [Answer(r, 200, "")
                        EXCEPT !.data = <<ApplyUpdate6(memoryTodos[index], b)>>]
          /\ UNCHANGED <<nextMemoryId, mongoTodos, mongoSeq>>

\* server.js 1487-1539: DELETE /api/todos/:id after protect
DeleteTodo6(r, up) ==
  LET userId == userId6(Val(r.user), up)
      mi == OwnedIndex(mongoTodos, CastObjectId(r.tid), userId)
      index == OwnedIndex(memoryTodos, ParseInt(r.tid), userId)
  IN IF up
     THEN IF CastObjectId(r.tid) = CastError
          THEN /\ resp' = Answer(r, 500, "Cast to ObjectId failed")
               /\ UNCHANGED <<memoryTodos, nextMemoryId, mongoTodos, mongoSeq>>
          ELSE IF mi = 0
          THEN /\ resp' = Answer(r, 404,
                      "Todo not found or not authorized to delete")
               /\ UNCHANGED <<memoryTodos, nextMemoryId, mongoTodos, mongoSeq>>
          ELSE /\ mongoTodos' = RemoveAt(mongoTodos, mi)
               /\ resp' = [Answer(r, 200, "") EXCEPT !.data = <<mongoTodos[mi]>>]
               /\ UNCHANGED <<memoryTodos, nextMemoryId, mongoSeq>>
     ELSE IF index = 0
     THEN /\ resp' = Answer(r, 404,
                 "Todo not found or not authorized to delete")
          /\ UNCHANGED <<memoryTodos, nextMemoryId, mongoTodos, mongoSeq>>
     ELSE /\ memoryTodos' = RemoveAt(memoryTodos, index)
          /\ resp' = [Answer(r, 200, "") EXCEPT !.data = <<memoryTodos[index]>>]
          /\ UNCHANGED <<nextMemoryId, mongoTodos, mongoSeq>>

\* .sort({ createdAt: -1 }) and ORDER BY createdAt DESC: the newest first,
\* todos of one instant in the order of the store
RECURSIVE CreatedUpTo(_, _)
CreatedUpTo(seq, t) ==
  IF t < 0 THEN <<>>
  ELSE SelectSeq(seq, LAMBDA d : d.createdAt = Some(t))
         \o CreatedUpTo(seq, t - 1)

NewestFirst(seq) == CreatedUpTo(seq, now)

\* server.js 1542-1582: GET /api/my-todos after protect
MyTodos6(r, up) ==
  LET userId == userId6(Val(r.user), up)
      mine(t) == t.userId = userId
  IN /\ resp' = [Answer(r, 200, "")
                   EXCEPT !.data = IF up
                                   THEN NewestFirst(Filter(mongoTodos, mine))
                                   ELSE Filter(memoryTodos, mine),
                          !.userKeys = {"id", "name", "email"}]
     /\ UNCHANGED <<memoryTodos, nextMemoryId, mongoTodos, mongoSeq>>

Handler6(r, up) ==
  /\ CASE r.route = "createTodo" -> CreateTodo6(r, up)
       [] r.route = "updateTodo" -> UpdateTodo6(r, up)
       [] r.route = "deleteTodo" -> DeleteTodo6(r, up)
       [] r.route = "myTodos" -> MyTodos6(r, up)
  /\ UNCHANGED <<memoryUsers, nextMemoryUserId, sqlUsers, sqlTodos,
                 sqlUserSeq, sqlTodoSeq, mongoUsers, now, issued, inflight>>

\* the parameters a route reads: the todo id in the URL, the body
TidsFor(route) ==
  IF route \in {"updateTodo", "deleteTodo", "getTodo"} THEN TodoIds ELSE {Null}
BodiesFor(route) ==
  CASE route = "createTodo" -> CreateBodies
    [] route = "updateTodo" -> UpdateBodies
    [] route = "putProfile" -> ProfileBodies
    [] OTHER -> {NoBody}

\* a request to a route behind protect: the middleware and, when it calls
\* next(), the handler, which asks canUseDB() again
Protected6(route, token) ==
  /\ server = "day6"
  /\ Accept
  /\ LET v == protect6(token)
     IN IF v.status # 0
        THEN /\ resp' = Rejected(route, v, token, Null, NoBody)
             /\ UNCHANGED <<conn, stores, now, inflight, issued>>
        ELSE \E tid \in TidsFor(route) : \E b \in BodiesFor(route) :
               /\ Handler6(Request(route, token, tid, b, v.dbType, v.user,
                                   "handler"), canUseDB6)
               /\ UNCHANGED conn

\* server.js 1150-1217: GET /api/profile verifies the token itself
Profile6(token) ==
  /\ server = "day6"
  /\ Accept
  /\ LET mu == UserById(mongoUsers, CastObjectId(token.id))
         u == Find(memoryUsers, LAMBDA m : IdToString(m.id) = token.id)
         R(status, error) ==
           [Reply("profile", status, error) EXCEPT !.token = token]
     IN resp' =
          IF token.kind = "none" THEN R(401, "No token provided")
          ELSE IF jwtVerify(token) = "JsonWebTokenError"
          THEN R(401, "Invalid token")
          ELSE IF jwtVerify(token) = "TokenExpiredError"
          THEN R(401, "Token expired")
          ELSE IF canUseDB6
          THEN IF CastObjectId(token.id) = CastError
               THEN R(500, "Cast to ObjectId failed")
               ELSE IF mu = None THEN R(404, "User not found")
               ELSE [R(200, "") EXCEPT !.user = mu, !.handlerRan = TRUE,
                                       !.dbType = "mongodb",
                                       !.userKeys =
                                          UserToJSON(MongoSelected(FALSE))]
          ELSE IF u = None THEN R(404, "User not found")
          ELSE [R(200, "") EXCEPT !.user = u, !.handlerRan = TRUE,
                                  !.dbType = "memory",
                                  !.userKeys = WithoutPassword(MemoryUserKeys)]
  /\ UNCHANGED <<conn, stores, now, inflight, issued>>

\* a logout that drops the accounts held in memory
Logout6Forgetting ==
  /\ server = "day6"
  /\ Accept
  /\ resp' = Reply("logout", 200, "")
  /\ memoryUsers' = <<>>
  /\ UNCHANGED <<conn, nextMemoryUserId, memoryTodos, nextMemoryId, sqlUsers,
                 sqlTodos, sqlUserSeq, sqlTodoSeq, mongoUsers, mongoTodos,
                 mongoSeq, now, inflight, issued>>

\* server.js 820-843: GET /api/todos, behind no middleware
GetTodos6 ==
  /\ server = "day6"
  /\ Accept
  /\ resp' = [Reply("todos6", 200, "")
                EXCEPT !.data = IF canUseDB6 THEN NewestFirst(mongoTodos)
                                ELSE memoryTodos,
                       !.dbType = IF canUseDB6 THEN "mongodb" ELSE "memory",
                       !.handlerRan = TRUE]
  /\ UNCHANGED <<conn, stores, now, inflight, issued>>

\* server.js 846-867: GET /api/todos/:id, behind no middleware
GetTodo6(tid) ==
  /\ server = "day6"
  /\ Accept
  /\ LET doc == Find(mongoTodos, LAMBDA t : t.id = CastObjectId(tid))
         todo == Find(memoryTodos, LAMBDA t : t.id = ParseInt(tid))
         R(status, error, found) ==
           [Reply("todo6", status, error)
              EXCEPT !.tid = tid, !.handlerRan = TRUE,
                     !.data = IF IsSome(found) THEN <<Val(found)>> ELSE <<>>,
                     !.dbType = IF canUseDB6 THEN "mongodb" ELSE "memory"]
     IN resp' =
          IF canUseDB6
          THEN IF CastObjectId(tid) = CastError
               THEN R(500, "Cast to ObjectId failed", None)
               ELSE IF doc = None THEN R(404, "Todo not found", None)
               ELSE R(200, "", doc)
          ELSE IF todo = None THEN R(404, "Todo not found", None)
          ELSE R(200, "", todo)
  /\ UNCHANGED <<conn, stores, now, inflight, issued>>

\* server.js 1220-1225: POST /api/logout, behind no middleware
Logout6 ==
  /\ server = "day6"
  /\ Accept
  /\ resp' = Reply("logout", 200, "")
  /\ UNCHANGED <<conn, stores, now, inflight, issued>>

\* server.js 724-730: GET /api/health
Health6 ==
  /\ server = "day6"
  /\ Accept
  /\ resp' = [Reply("health", 200, "")
                EXCEPT !.keys = {"status", "database", "uptime"}]
  /\ UNCHANGED <<conn, stores, now, inflight, issued>>

\* ------------------------------------------------------- day7: protect
\* SQLiteDB.findUserById (sqlite-db.js 107-118): the columns it selects
findUserByIdColumns ==
  {"id", "name", "email", "role", "isActive", "createdAt", "lastLogin"}

\* a lookup that forgets the id: WHERE isActive = 1
findUserByIdAnyActive(id) == Find(sqlUsers, LAMBDA u : u.isActive)

findUserById(id) ==
  Find(sqlUsers, LAMBDA u : SqlIntEq(u.id, id) /\ u.isActive)

\* part_001 742-811.  An error that is not a JWT error goes to
\* errorHandler (part_001 720-739), which answers err.statusCode || 500.
protect(token) ==
  LET dbStatus == canUseDB
      user == IF dbStatus.type = "mongodb"
              THEN UserById(mongoUsers, CastObjectId(token.id))
              ELSE findUserById(token.id)
  IN IF token.kind = "none"
     THEN Verdict(401, "Not authorized. Please provide a token.", None, FALSE,
                  "none")
     ELSE IF jwtVerify(token) = "JsonWebTokenError"
     THEN Verdict(401, "Invalid token.", None, FALSE, "none")
     ELSE IF jwtVerify(token) = "TokenExpiredError"
     THEN Verdict(401, "Token expired. Please login again.", None, FALSE,
                  "none")
     ELSE IF dbStatus.type = "mongodb" /\ CastObjectId(token.id) = CastError
     THEN Verdict(500, "Cast to ObjectId failed", None, FALSE, "mongodb")
     ELSE IF dbStatus.type = "none"
     THEN Verdict(500, "Database not available.", None, FALSE, "none")
     ELSE IF user = None
     THEN Verdict(401, "User not found or token is invalid.", None, FALSE,
                  dbStatus.type)
     ELSE IF ~Val(user).isActive
     THEN Verdict(401, "User account is deactivated.", None, FALSE,
                  dbStatus.type)
     ELSE Verdict(0, "", user, TRUE, dbStatus.type)

\* JSON.stringify and JSON.parse of the tags array
JsonStringify(v) == <<"json", v>>
JsonParse(j) == j[2]

\* Array.prototype.map(tag => tag.trim())
RECURSIVE TrimAll(_)
TrimAll(tags) ==
  IF tags = <<>> THEN <<>> ELSE <<Trim(Head(tags))>> \o TrimAll(Tail(tags))

\* a row of the todos table as getTodosByUser, getTodoById and updateTodo
\* hand it out (sqlite-db.js 215-219, 235-236, 298-299)
RowToTodo(row) ==
  [row EXCEPT !.tags = IF IsSome(@) THEN Some(JsonParse(Val(@)))
                       ELSE Some(<<>>),
              !.completed = (@ # 0)]

\* a mongoose command issued while the connection is down is buffered and
\* fails with a timeout
MongoDown(r, up) == r.dbType = "mongodb" /\ ~up

\* part_001 1079-1122 with sqlite-db.js 150-178: POST /api/todos
createTodo(r, up) ==
  LET b == r.body
      userId == Val(r.user).id
      task == Trim(Val(b.task))
      description == IF Truthy(b.description)
                     THEN Some(Trim(Val(b.description))) ELSE None
      priority == IF IsSome(b.priority) THEN Val(b.priority) ELSE "medium"
      dueDate == IF Truthy(b.dueDate) THEN b.dueDate ELSE None
      tags == IF IsSome(b.tags) THEN TrimAll(Val(b.tags)) ELSE <<>>
      doc == Todo(Oid(mongoSeq + 1), task, description, FALSE, priority,
                  dueDate, userId, Some(tags), Some(now))
      row == Todo(Num(sqlTodoSeq + 1), task, description, 0, priority,
                  dueDate, userId, Some(JsonStringify(tags)), Some(now))
  IN IF ~Truthy(b.task) \/ Len(Trim(Val(b.task))) < 3
     THEN /\ resp' = Answer(r, 400,
                 "Task is required and must be at least 3 characters.")
          /\ UNCHANGED <<sqlTodos, sqlTodoSeq, mongoTodos, mongoSeq>>
     ELSE IF r.dbType = "mongodb"
     THEN IF MongoDown(r, up) \/ ~TodoValid(task, priority)
          THEN /\ resp' = Answer(r, 500, "Todo validation failed")
               /\ UNCHANGED <<sqlTodos, sqlTodoSeq, mongoTodos, mongoSeq>>
          ELSE /\ RoomForTodo
               /\ mongoTodos' = Append(mongoTodos, doc)
               /\ mongoSeq' = mongoSeq + 1
               /\ resp' = [Answer(r, 201, "") EXCEPT !.data = <<doc>>]
               /\ UNCHANGED <<sqlTodos, sqlTodoSeq>>
     ELSE /\ RoomForTodo
          /\ sqlTodos' = Append(sqlTodos, row)
          /\ sqlTodoSeq' = sqlTodoSeq + 1
          /\ resp' = [Answer(r, 201, "")
                        EXCEPT !.data = <<[row EXCEPT !.completed = FALSE,
                                                      !.tags = Some(tags)]>>]
          /\ UNCHANGED <<mongoTodos, mongoSeq>>

\* req.query of GET /api/todos: page and limit as parseInt reads them,
\* completed as the string of the URL
Query(page, limit, completed, priority, search) ==
  [page |-> page, limit |-> limit, completed |-> completed,
   priority |-> priority, search |-> search]

Queries ==
  { Query(None, None, None, None, None),
    Query(None, None, Some("true"), None, None),
    Query(None, Some(1), None, Some("low"), None),
    Query(Some(2), Some(1), None, None, Some(<<"a", "b">>)) }

\* task LIKE '%search%' and {$regex: search}: the task contains the text
Contains(task, text) ==
  \E k \in 0..(Len(task) - Len(text)) :
    SubSeq(task, k + 1, k + Len(text)) = text

\* the filters of part_001 1141-1144 and of sqlite-db.js 189-200; true and
\* false are the values the store keeps for a boolean
Filtered(seq, userId, q, true, false) ==
  SelectSeq(seq, LAMBDA t :
    /\ t.userId = userId
    /\ IsSome(q.completed) =>
         t.completed = (IF Val(q.completed) = "true" THEN true ELSE false)
    /\ IsSome(q.priority) => t.priority = Val(q.priority)
    /\ Truthy(q.search) => Contains(t.task, Val(q.search)))

\* .skip(skip).limit(limit) and LIMIT ? OFFSET ?
Paged(seq, page, limit) ==
  SubSeq(seq, (page - 1) * limit + 1,
         IF page * limit < Len(seq) THEN page * limit ELSE Len(seq))

\* the destructuring defaults: page = 1, limit = 10
PageOf(q) == IF IsSome(q.page) THEN Val(q.page) ELSE 1
LimitOf(q) == IF IsSome(q.limit) THEN Val(q.limit) ELSE 10

\* SQLiteDB.getTodosByUser (sqlite-db.js 180-224)
getTodosByUser(userId, q) ==
  LET rows == Paged(NewestFirst(Filtered(sqlTodos, userId, q, 1, 0)),
                    PageOf(q), LimitOf(q))
  IN [k \in 1..Len(rows) |-> RowToTodo(rows[k])]

\* Math.ceil(total / limit)
Ceil(a, b) == (a + b - 1) \div b

\* part_001 1125-1189: GET /api/todos.  MongoDB counts the documents that
\* match the query (1154); the SQLite branch counts what getTodosByUser
\* returns for no filters at all (1169-1170).
listTodos(r, q, up) ==
  LET userId == Val(r.user).id
      matching == Filtered(mongoTodos, userId, q, TRUE, FALSE)
      docs == Paged(NewestFirst(matching), PageOf(q), LimitOf(q))
      total == IF r.dbType = "mongodb" THEN Len(matching)
               ELSE Len(getTodosByUser(userId,
                                       Query(None, None, None, None, None)))
  IN /\ resp' = IF MongoDown(r, up) THEN Answer(r, 500, "buffering timed out")
                ELSE [Answer(r, 200, "")
                        EXCEPT !.data = IF r.dbType = "mongodb" THEN docs
                                        ELSE getTodosByUser(userId, q),
                               !.query = q,
                               !.pagination =
                                  [page |-> PageOf(q), limit |-> LimitOf(q),
                                   total |-> total,
                                   pages |-> Ceil(total, LimitOf(q))]]
     /\ UNCHANGED <<sqlTodos, sqlTodoSeq, mongoTodos, mongoSeq>>

\* a statement that forgets the owner: WHERE id = ?
SqlIndexById(id, userId) ==
  FindIndex(sqlTodos, LAMBDA t : SqlIntEq(t.id, id))

\* SELECT/UPDATE/DELETE ... WHERE id = ? AND userId = ?
SqlOwnedIndex(id, userId) ==
  FindIndex(sqlTodos, LAMBDA t : SqlIntEq(t.id, id) /\ t.userId = userId)

\* part_001 1192-1218 with sqlite-db.js 226-244: GET /api/todos/:id
getTodo(r, up) ==
  LET userId == Val(r.user).id
      mi == OwnedIndex(mongoTodos, CastObjectId(r.tid), userId)
      si == SqlOwnedIndex(r.tid, userId)
      notFound == Answer(r, 404,
          "Todo not found or you do not have permission to view it.")
  IN /\ resp' =
          IF r.dbType = "mongodb"
          THEN IF MongoDown(r, up) \/ CastObjectId(r.tid) = CastError
               THEN Answer(r, 500, "Cast to ObjectId failed")
               ELSE IF mi = 0 THEN notFound
               ELSE [Answer(r, 200, "") EXCEPT !.data = <<mongoTodos[mi]>>]
          ELSE IF si = 0 THEN notFound
          ELSE [Answer(r, 200, "") EXCEPT !.data = <<RowToTodo(sqlTodos[si])>>]
     /\ UNCHANGED <<sqlTodos, sqlTodoSeq, mongoTodos, mongoSeq>>
\* ---------------------------------------------- day7: GET /api/todos/stats
\* the GET routes under /api/todos in the order app.get registers them
\* (part_001 1125, 1192, 1314); a segment is a literal or a parameter
GetRoutes7 ==
  << [path |-> << <<"lit", "api">>, <<"lit", "todos">> >>,
      handler |-> "listTodos"],
     [path |-> << <<"lit", "api">>, <<"lit", "todos">>, <<"param", "id">> >>,
      handler |-> "getTodo"],
     [path |-> << <<"lit", "api">>, <<"lit", "todos">>, <<"lit", "stats">> >>,
      handler |-> "todoStats"] >>

\* Express matches a path against a route segment by segment; a parameter
\* matches any segment
RouteMatches(route, url) ==
  /\ Len(route.path) = Len(url)
  /\ \A k \in 1..Len(url) :
       route.path[k][1] = "param" \/ route.path[k] = url[k]

\* the router runs the first registered route that matches; none of these
\* handlers calls next() without an error
Router(url) == Find(GetRoutes7, LAMBDA route : RouteMatches(route, url))

StatsUrl == << <<"lit", "api">>, <<"lit", "todos">>, <<"lit", "stats">> >>

Count(seq, userId, completed, priority) ==
  Cardinality({k \in 1..Len(seq) :
                 /\ seq[k].userId = userId
                 /\ completed # "any" => seq[k].completed = completed
                 /\ priority # "any" => seq[k].priority = priority})

\* the $group stage of part_001 1322-1338 and the six COUNT(*) queries of
\* SQLiteDB.getTodoStats (sqlite-db.js 324-355)
Stats(seq, userId, true, false) ==
  [total |-> Count(seq, userId, "any", "any"),
   completed |-> Count(seq, userId, true, "any"),
   pending |-> Count(seq, userId, false, "any"),
   highPriority |-> Count(seq, userId, "any", "high"),
   mediumPriority |-> Count(seq, userId, "any", "medium"),
   lowPriority |-> Count(seq, userId, "any", "low")]

\* part_001 1314-1350: the handler of GET /api/todos/stats
todoStats(r, up) ==
  LET userId == Val(r.user).id
  IN /\ resp' =
          IF MongoDown(r, up) THEN Answer(r, 500, "buffering timed out")
          ELSE [Answer(r, 200, "")
                  EXCEPT !.data =
                    IF r.dbType = "mongodb"
                    THEN <<Stats(mongoTodos, userId, TRUE, FALSE)>>
                    ELSE <<Stats(sqlTodos, userId, 1, 0)>>]
     /\ UNCHANGED <<sqlTodos, sqlTodoSeq, mongoTodos, mongoSeq>>

\* a GET request for /api/todos/stats: the router picks the handler, and
\* req.params.id of the route /api/todos/:id is the third segment
getStats(r, up) ==
  IF Val(Router(StatsUrl)).handler = "getTodo"
  THEN getTodo([r EXCEPT !.tid = StatsUrl[3]], up)
  ELSE todoStats(r, up)

\* the updates object of part_001 1237-1243 applied by findOneAndUpdate
ApplyUpdateMongo(t, b) ==
  [t EXCEPT !.task = IF IsSome(b.task) THEN Trim(Val(b.task)) ELSE @,
            !.description = IF IsSome(b.description)
                            THEN Some(Trim(Val(b.description))) ELSE @,
            !.completed = IF IsSome(b.completed) THEN Val(b.completed) ELSE @,
            !.priority = IF IsSome(b.priority) THEN Val(b.priority) ELSE @,
            !.dueDate = IF IsSome(b.dueDate) THEN b.dueDate ELSE @,
            !.tags = IF IsSome(b.tags) THEN Some(TrimAll(Val(b.tags))) ELSE @,
            !.updatedAt = Some(now)]

\* the updates object of part_001 1251-1257 as SQLiteDB.updateTodo writes
\* it (sqlite-db.js 246-285): UPDATE todos SET <the fields given>,
\* updatedAt = CURRENT_TIMESTAMP
ApplyUpdateSql(row, b) ==
  [row EXCEPT !.task = IF IsSome(b.task) THEN Trim(Val(b.task)) ELSE @,
              !.description = IF IsSome(b.description)
                              THEN Some(Trim(Val(b.description))) ELSE @,
              !.completed = IF IsSome(b.completed)
                            THEN (IF Val(b.completed) THEN 1 ELSE 0) ELSE @,
              !.priority = IF IsSome(b.priority) THEN Val(b.priority) ELSE @,
              !.dueDate = IF IsSome(b.dueDate) THEN b.dueDate ELSE @,
              !.tags = IF IsSome(b.tags) THEN Some(JsonStringify(Val(b.tags)))
                       ELSE @,
              !.updatedAt = Some(now)]

\* part_001 1221-1277 with sqlite-db.js 246-309: PUT /api/todos/:id.
\* In updateTodo the callback of db.run is a function whose this is the
\* statement, so this.db.get (sqlite-db.js 292) throws a TypeError after
\* the UPDATE changed a row: the request is never answered and the
\* uncaughtException handler (part_001 1790-1793) starts the shutdown.
\* Status 0 in resp stands for a request that got no response.
updateTodo(r, up) ==
  LET b == r.body
      userId == Val(r.user).id
      mi == OwnedIndex(mongoTodos, CastObjectId(r.tid), userId)
      si == SqlOwnedIndex(r.tid, userId)
      notFound == Answer(r, 404,
          "Todo not found or you do not have permission to update it.")
      keep == UNCHANGED <<sqlTodos, sqlTodoSeq, mongoTodos, mongoSeq>>
  IN IF Truthy(b.task) /\ Len(Trim(Val(b.task))) < 3
     THEN resp' = Answer(r, 400, "Task must be at least 3 characters.")
          /\ keep /\ UNCHANGED phase
     ELSE IF r.dbType = "mongodb"
     THEN IF MongoDown(r, up) \/ CastObjectId(r.tid) = CastError
             \/ (IsSome(b.task) /\ Len(Trim(Val(b.task))) < 3)
             \/ (IsSome(b.priority) /\ Val(b.priority) \notin Priorities)
          THEN resp' = Answer(r, 500, "Validation failed")
               /\ keep /\ UNCHANGED phase
          ELSE IF mi = 0
          THEN resp' = notFound /\ keep /\ UNCHANGED phase
          ELSE /\ mongoTodos' =
                    SetAt(mongoTodos, mi, ApplyUpdateMongo(mongoTodos[mi], b))
               /\ resp' = [Answer(r, 200, "")
                             EXCEPT !.data =
                                 <<ApplyUpdateMongo(mongoTodos[mi], b)>>]
               /\ UNCHANGED <<sqlTodos, sqlTodoSeq, mongoSeq, phase>>
     ELSE IF si = 0
     THEN resp' = notFound /\ keep /\ UNCHANGED phase
     ELSE /\ sqlTodos' = SetAt(sqlTodos, si, ApplyUpdateSql(sqlTodos[si], b))
          /\ phase' = "closing"
          /\ resp' = [Answer(r, 0, "TypeError") EXCEPT !.keys = {}]
          /\ UNCHANGED <<sqlTodoSeq, mongoTodos, mongoSeq>>

\* part_001 1280-1307 with sqlite-db.js 311-322: DELETE /api/todos/:id
deleteTodo(r, up) ==
  LET userId == Val(r.user).id
      mi == OwnedIndex(mongoTodos, CastObjectId(r.tid), userId)
      si == SqlOwnedIndex(r.tid, userId)
      notFound == Answer(r, 404,
          "Todo not found or you do not have permission to delete it.")
      keep == UNCHANGED <<sqlTodos, sqlTodoSeq, mongoTodos, mongoSeq>>
  IN IF r.dbType = "mongodb"
     THEN IF MongoDown(r, up) \/ CastObjectId(r.tid) = CastError
          THEN resp' = Answer(r, 500, "Cast to ObjectId failed") /\ keep
          ELSE IF mi = 0
          THEN resp' = notFound /\ keep
          ELSE /\ mongoTodos' = RemoveAt(mongoTodos, mi)
               /\ resp' = Answer(r, 200, "")
               /\ UNCHANGED <<sqlTodos, sqlTodoSeq, mongoSeq>>
     ELSE IF si = 0
     THEN resp' = notFound /\ keep
     ELSE /\ sqlTodos' = RemoveAt(sqlTodos, si)
          /\ resp' = Answer(r, 200, "")
          /\ UNCHANGED <<sqlTodoSeq, mongoTodos, mongoSeq>>

\* part_001 1019-1028: GET /api/auth/profile answers req.user
getProfile(r) ==
  resp' = [Answer(r, 200, "")
             EXCEPT !.userKeys = IF r.dbType = "mongodb"
                                 THEN UserToJSON(MongoSelected(FALSE))
                                 ELSE findUserByIdColumns]

\* part_001 1031-1064 with sqlite-db.js 133-144: PUT /api/auth/profile
putProfile(r, up) ==
  LET b == r.body
      user == Val(r.user)
      name == IF Truthy(b.name) THEN Val(b.name) ELSE user.name
      mi == FindIndex(mongoUsers, LAMBDA u : u.id = user.id)
      si == FindIndex(sqlUsers, LAMBDA u : u.id = user.id)
  IN IF Truthy(b.name) /\ Len(Trim(Val(b.name))) < 2
     THEN /\ resp' = Answer(r, 400, "Name must be at least 2 characters.")
          /\ UNCHANGED <<sqlUsers, mongoUsers>>
     ELSE IF r.dbType = "mongodb"
     THEN IF MongoDown(r, up)
          THEN /\ resp' = Answer(r, 500, "buffering timed out")
               /\ UNCHANGED <<sqlUsers, mongoUsers>>
          ELSE /\ mongoUsers' =
                    SetAt(mongoUsers, mi, [mongoUsers[mi] EXCEPT !.name = Trim(name)])
               /\ resp' = [Answer(r, 200, "")
                             EXCEPT !.userKeys =
                                 WithoutPassword(MongoSelected(FALSE))]
               /\ UNCHANGED sqlUsers
     ELSE /\ sqlUsers' = SetAt(sqlUsers, si, [sqlUsers[si] EXCEPT !.name = name])
          /\ resp' = [Answer(r, 200, "") EXCEPT !.userKeys = findUserByIdColumns]
          /\ UNCHANGED mongoUsers

\* a check that admits every authenticated user
authorizeAny(roles, user) == IF user = None THEN 401 ELSE 0

\* part_001 814-832: authorize(...roles); 0 when it calls next()
authorize(roles, user) ==
  IF user = None THEN 401
  ELSE IF Val(user).role \notin roles THEN 403
  ELSE 0

\* SQLiteDB.getAllUsers (sqlite-db.js 357-368): the columns it selects
getAllUsersColumns ==
  {"id", "name", "email", "role", "isActive", "createdAt", "lastLogin"}

\* part_001 1357-1374: GET /api/admin/users behind protect and
\* authorize('admin'); the MongoDB query selects '-password -__v'
adminUsers(r) ==
  resp' =
    IF authorize({"admin"}, r.user) = 401
    THEN [Answer(r, 401, "Not authorized.") EXCEPT !.handlerRan = FALSE]
    ELSE IF authorize({"admin"}, r.user) = 403
    THEN [Answer(r, 403, "Role is not authorized to access this resource.")
            EXCEPT !.handlerRan = FALSE]
    ELSE [Answer(r, 200, "")
            EXCEPT !.userKeys = IF r.dbType = "mongodb"
                                THEN (MongoUserPaths \ {"password"}) \ {"__v"}
                                ELSE getAllUsersColumns]

\* SQLiteDB.getAllTodos (sqlite-db.js 370-396) and Todo.find().populate(
\* 'user', 'name email'): every todo, the newest first, with the name and
\* email of its owner
getAllTodos(seq, sqlite) ==
  [k \in 1..Len(NewestFirst(seq)) |->
     IF sqlite THEN RowToTodo(NewestFirst(seq)[k]) ELSE NewestFirst(seq)[k]]

\* part_001 1377-1394: GET /api/admin/todos behind protect and
\* authorize('admin')
adminTodos(r) ==
  resp' =
    IF authorize({"admin"}, r.user) = 401
    THEN [Answer(r, 401, "Not authorized.") EXCEPT !.handlerRan = FALSE]
    ELSE IF authorize({"admin"}, r.user) = 403
    THEN [Answer(r, 403, "Role is not authorized to access this resource.")
            EXCEPT !.handlerRan = FALSE]
    ELSE [Answer(r, 200, "")
            EXCEPT !.data = IF r.dbType = "mongodb"
                            THEN getAllTodos(mongoTodos, FALSE)
                            ELSE getAllTodos(sqlTodos, TRUE),
                   !.userKeys = IF r.dbType = "mongodb"
                                THEN {"_id", "name", "email"}
                                ELSE {"name", "email"}]

\* part_001 1067-1072: POST /api/auth/logout
logout(r) == resp' = Answer(r, 200, "")

Handler7(r, up) ==
  /\ CASE r.route = "createTodo" ->
            createTodo(r, up) /\ UNCHANGED <<phase, sqlUsers, mongoUsers>>
       [] r.route = "listTodos" ->
            /\ \E q \in Queries : listTodos(r, q, up)
            /\ UNCHANGED <<phase, sqlUsers, mongoUsers>>
       [] r.route = "getTodo" ->
            getTodo(r, up) /\ UNCHANGED <<phase, sqlUsers, mongoUsers>>
       [] r.route = "stats" ->
            getStats(r, up) /\ UNCHANGED <<phase, sqlUsers, mongoUsers>>
       [] r.route = "updateTodo" ->
            updateTodo(r, up) /\ UNCHANGED <<sqlUsers, mongoUsers>>
       [] r.route = "deleteTodo" ->
            deleteTodo(r, up) /\ UNCHANGED <<phase, sqlUsers, mongoUsers>>
       [] r.route = "getProfile" ->
            getProfile(r) /\ UNCHANGED <<phase, sqlUsers, mongoUsers, sqlTodos,
                                         sqlTodoSeq, mongoTodos, mongoSeq>>
       [] r.route = "putProfile" ->
            putProfile(r, up) /\ UNCHANGED <<phase, sqlTodos, sqlTodoSeq,
                                         mongoTodos, mongoSeq>>
       [] r.route = "logout" ->
            logout(r) /\ UNCHANGED <<phase, sqlUsers, mongoUsers, sqlTodos,
                                     sqlTodoSeq, mongoTodos, mongoSeq>>
       [] r.route = "adminUsers" ->
            adminUsers(r) /\ UNCHANGED <<phase, sqlUsers, mongoUsers, sqlTodos,
                                         sqlTodoSeq, mongoTodos, mongoSeq>>
       [] r.route = "adminTodos" ->
            adminTodos(r) /\ UNCHANGED <<phase, sqlUsers, mongoUsers, sqlTodos,
                                         sqlTodoSeq, mongoTodos, mongoSeq>>
  /\ UNCHANGED <<memoryUsers, nextMemoryUserId, memoryTodos, nextMemoryId,
                 sqlUserSeq, now, issued>>

\* a request to a route behind protect: the middleware and, when it calls
\* next(), the handler.  req.dbType is the store protect looked the user up
\* in.
Protected7(route, token) ==
  /\ server = "day7"
  /\ Accept
  /\ LET v == protect(token)
     IN IF v.status # 0
        THEN /\ resp' = Rejected(route, v, token, Null, NoBody)
             /\ UNCHANGED <<conn, stores, now, inflight, issued>>
        ELSE \E tid \in TidsFor(route) : \E b \in BodiesFor(route) :
               /\ Handler7(Request(route, token, tid, b, v.dbType, v.user,
                                   "handler"), readyState = 1)
               /\ IF phase' = phase
                  THEN UNCHANGED shutdowns
                  ELSE shutdowns' = shutdowns + 1
               /\ UNCHANGED <<server, readyState, mongoInit, sqliteDB, closed, late,
                              exitCode, inflight>>

\* the response has been written; the model forgets it
Sent ==
  /\ resp # NoResp
  /\ resp' = NoResp
  /\ UNCHANGED <<conn, stores, now, inflight, issued>>

Signals == {"SIGTERM", "SIGINT"}

\* part_001 1763-1787: shutdown(signal) calls server.close with a callback
\* and arms the forced-exit timer.  On a server that has closed already the
\* callback runs again on the next tick: it finds the MongoDB connection
\* closing and closes the SQLite handle once more, then arms one more
\* exit timer.
shutdown(signal) ==
  /\ server = "day7"
  /\ phase \in {"listening", "closing", "closed"}
  /\ shutdowns < MaxShutdowns
  /\ Events < MaxEvents
  /\ shutdowns' = shutdowns + 1
  /\ phase' = IF phase = "listening" THEN "closing" ELSE phase
  /\ UNCHANGED <<server, readyState, mongoInit, sqliteDB, closed, late, exitCode,
                 stores, now, inflight, resp, issued>>

\* part_001 1766-1776: what the callback of server.close closes, in order
CloseOrder(connected, sqlite) ==
  <<"http">> \o (IF connected THEN <<"mongodb">> ELSE <<>>)
             \o (IF sqlite THEN <<"sqlite">> ELSE <<>>)

\* part_001 1765-1777: the callback of server.close runs when the server has
\* stopped listening and every connection has ended; it closes the
\* databases and arms the timer of process.exit(0)
serverClosed ==
  /\ phase = "closing"
  /\ Quiet /\ inflight = <<>>
  /\ closed' = CloseOrder(readyState = 1, sqliteDB)
  /\ late' \in BOOLEAN
  /\ readyState' = 0
  /\ phase' = "closed"
  /\ UNCHANGED <<server, mongoInit, sqliteDB, shutdowns, exitCode, stores,
                 now, inflight, resp, issued>>

\* part_001 1776: setTimeout(() => process.exit(0), 1000)
exit ==
  /\ phase = "closed" /\ ~late
  /\ phase' = "exited"
  /\ exitCode' = 0
  /\ UNCHANGED <<server, readyState, mongoInit, sqliteDB, shutdowns, closed, late,
                 stores, now, inflight, resp, issued>>

\* part_001 1780-1784: the forced-exit timer, armed 10 s before; the
\* requests still suspended are lost
forceExit ==
  /\ phase = "closing" \/ (phase = "closed" /\ late)
  /\ phase' = "exited"
  /\ exitCode' = 1
  /\ inflight' = <<>>
  /\ UNCHANGED <<server, readyState, mongoInit, sqliteDB, shutdowns, closed, late,
                 stores, now, resp, issued>>

\* ------------------------------------------------------ specification
Routes6 == {"createTodo", "updateTodo", "deleteTodo", "myTodos"}
Routes7 == {"createTodo", "listTodos", "getTodo", "updateTodo", "deleteTodo",
            "getProfile", "putProfile", "logout", "adminUsers",
            "adminTodos", "stats"}

Next ==
  \/ \E o \in Outcomes : Start6(o)
  \/ start
  \/ \E o \in Outcomes : connectDB(o)
  \/ startServer
  \/ MongoDisconnected
  \/ MongoReconnected
  \/ Tick
  \/ Sent
  \/ \E b \in RegisterBodies : Register6(b)
  \/ \E i \in 1..MaxInflight : Register6Mongo(i)
  \/ \E i \in 1..MaxInflight : Register6Memory(i)
  \/ \E b \in LoginBodies : Login6(b)
  \/ \E t \in Tokens : Profile6(t)
  \/ Logout6
  \/ GetTodos6
  \/ \E tid \in TodoIds : GetTodo6(tid)
  \/ Health6
  \/ \E route \in Routes6 : \E t \in Tokens : Protected6(route, t)
  \/ \E b \in RegisterBodies : register(b)
  \/ \E i \in 1..MaxInflight : registerMongo(i)
  \/ \E i \in 1..MaxInflight : registerSqlite(i)
  \/ \E b \in LoginBodies : login(b)
  \/ \E route \in Routes7 : \E t \in Tokens : Protected7(route, t)
  \/ \E signal \in Signals : shutdown(signal)
  \/ serverClosed
  \/ exit
  \/ forceExit

Spec == Init /\ [][Next]_vars

\* The event loop runs every callback that is due: the continuations of
\* connectDB and of start, and the timers armed by shutdown.  The callback of
\* server.close waits for the clients and has no such guarantee.
LiveSpec ==
  /\ Spec
  /\ WF_vars(\E o \in Outcomes : Start6(o))
  /\ WF_vars(start)
  /\ WF_vars(\E o \in Outcomes : connectDB(o))
  /\ WF_vars(startServer)
  /\ WF_vars(exit)
  /\ WF_vars(forceExit)

\* ------------------------------------------------------- verification
\* the routes behind protect
ProtectedRoutes == IF server = "day6" THEN Routes6 ELSE Routes7

AllUsers ==
  {memoryUsers[k] : k \in 1..Len(memoryUsers)}
    \cup {sqlUsers[k] : k \in 1..Len(sqlUsers)}
    \cup {mongoUsers[k] : k \in 1..Len(mongoUsers)}

\* the token carries the id of a stored active user, in either notation
TokenNamesUser(token) ==
  \E u \in AllUsers :
    u.isActive /\ token.id \in {JwtPayloadId(u.id), IdToString(u.id)}

Unauthenticated(token) ==
  token.kind \in {"none", "malformed", "expired"} \/ ~TokenNamesUser(token)

\* C1 as stated: a request to a protected route without a token, with a
\* token that fails verification, or with a token whose id names no stored
\* active user is answered 401 and its handler does not run.
C1_UnauthenticatedIs401 ==
  (resp.route \in ProtectedRoutes /\ Unauthenticated(resp.token))
    => (resp.status = 401 /\ ~resp.handlerRan)

\* C2: whenever protect admits a request, the user it attaches is stored
\* and is the user to whom register or login issued the presented token.
C2_AttachedUserOwnsToken ==
  (resp.route \in ProtectedRoutes /\ IsSome(resp.user)) =>
    /\ \E u \in AllUsers : u.id = Val(resp.user).id
                           /\ u.email = Val(resp.user).email
    /\ \A i \in issued :
         i.token = resp.token =>
           (i.uid = Val(resp.user).id /\ i.email = Val(resp.user).email)

\* a request with an issued token was admitted while both the MongoDB and
\* the in-memory store hold users (the connection changed in between)
C2_Witness ==
  /\ resp.route \in ProtectedRoutes
  /\ IsSome(resp.user)
  /\ \E i \in issued : i.token = resp.token
  /\ memoryUsers # <<>>
  /\ mongoUsers # <<>>

UniqueEmails(seq) ==
  \A i, j \in 1..Len(seq) : i # j => seq[i].email # seq[j].email

\* C3 as stated: no two users stored in memoryUsers, and no two rows of
\* the SQLite users table, have the same email.
C3_EmailsUnique == UniqueEmails(memoryUsers) /\ UniqueEmails(sqlUsers)

OwnersOf(t, users) == {k \in 1..Len(users) : users[k].id = t.userId}

\* C4 as stated: in every state, the initial one included, the owner id of
\* each todo in memoryTodos is the id of exactly one user in memoryUsers,
\* and likewise for the SQLite todos and users tables.
C4_EveryTodoOwned ==
  /\ \A k \in 1..Len(memoryTodos) :
       Cardinality(OwnersOf(memoryTodos[k], memoryUsers)) = 1
  /\ \A k \in 1..Len(sqlTodos) :
       Cardinality(OwnersOf(sqlTodos[k], sqlUsers)) = 1

\* C5: no response carries a password or password hash: neither the user
\* object of a response nor a todo it lists has a password key.
C5_NoPasswordInResponse ==
  /\ "password" \notin resp.userKeys
  /\ \A k \in 1..Len(resp.data) : "password" \notin DOMAIN resp.data[k]

\* a login answered from the SQLite store, whose SELECT * loads the hash
C5_Witness ==
  /\ resp.route = "login"
  /\ resp.status = 200
  /\ resp.dbType = "sqlite"
  /\ "email" \in resp.userKeys

\* the URL id names a todo of the list that belongs to someone else
ForeignTodo(seq, tid, uid) ==
  \E k \in 1..Len(seq) : IdToString(seq[k].id) = tid /\ seq[k].userId # uid

\* r answers a PUT or DELETE of an authenticated user on a todo of the
\* in-memory list (day6) or of the SQLite table (day7) that is not theirs
NonOwnerWrite(r) ==
  /\ r.route \in {"updateTodo", "deleteTodo"}
  /\ IsSome(r.user)
  /\ \/ r.dbType = "memory"
        /\ ForeignTodo(memoryTodos, r.tid, Val(r.user).id)
     \/ r.dbType = "sqlite"
        /\ ForeignTodo(sqlTodos, r.tid, Val(r.user).id)

\* a todo of the list is gone from it or differs in it after the step
Touched(seq, after, k) == \A j \in 1..Len(after) : after[j] # seq[k]

\* only a PUT or DELETE of the owner modifies or removes a stored todo
OnlyOwnerWrites(seq, after, r) ==
  \A k \in 1..Len(seq) :
    Touched(seq, after, k) =>
      /\ r.route \in {"updateTodo", "deleteTodo"}
      /\ IsSome(r.user)
      /\ Val(r.user).id = seq[k].userId

\* a PUT of the day7 server whose body has a task shorter than 3 characters
ShortTaskPut(r) ==
  /\ server = "day7"
  /\ r.route = "updateTodo"
  /\ Truthy(r.body.task)
  /\ Len(Trim(Val(r.body.task))) < 3

\* C6, amended: a PUT or DELETE by a user who does not own the todo leaves
\* every todo unchanged and is answered 404, except that the day7 PUT with
\* a task shorter than 3 characters is answered 400; only the owner's PUT
\* or DELETE modifies or removes a todo.
C6_NonOwnerWriteRejected ==
  [][ /\ NonOwnerWrite(resp') =>
           /\ memoryTodos' = memoryTodos
           /\ sqlTodos' = sqlTodos
           /\ resp'.status = IF ShortTaskPut(resp') THEN 400 ELSE 404
      /\ OnlyOwnerWrites(memoryTodos, memoryTodos', resp')
      /\ OnlyOwnerWrites(sqlTodos, sqlTodos', resp') ]_vars

\* C6 as stated: a PUT or DELETE by a user who does not own the todo is
\* answered 404 and leaves every todo unchanged.
C6_NonOwnerWriteIs404 ==
  [][ NonOwnerWrite(resp') =>
        /\ memoryTodos' = memoryTodos
        /\ sqlTodos' = sqlTodos
        /\ resp'.status = 404 ]_vars

\* a PUT with a short task on another user's todo in the SQLite store was
\* answered 400
C6_Witness ==
  /\ resp.route = "updateTodo"
  /\ resp.status = 400
  /\ resp.dbType = "sqlite"
  /\ IsSome(resp.user)
  /\ ForeignTodo(sqlTodos, resp.tid, Val(resp.user).id)

\* the list a request with this dbType reads
TodosOf(dbType) ==
  CASE dbType = "memory" -> memoryTodos
    [] dbType = "sqlite" -> sqlTodos
    [] OTHER -> mongoTodos

\* two lists hold the same todos, in whatever order
SameTodos(a, b) ==
  /\ Len(a) = Len(b)
  /\ {a[k] : k \in 1..Len(a)} = {b[k] : k \in 1..Len(b)}

\* C7: GET /api/my-todos (day6) returns exactly the stored todos of the
\* requester; GET /api/todos and GET /api/todos/:id (day7) return no todo
\* of another user, and the single read of another user's todo answers 404.
C7_ReadsScopedToUser ==
  /\ (resp.route = "myTodos" /\ resp.status = 200) =>
       SameTodos(resp.data,
                 SelectSeq(TodosOf(resp.dbType),
                           LAMBDA t : t.userId = Val(resp.user).id))
  /\ (resp.route \in {"listTodos", "getTodo"} /\ resp.status = 200) =>
       \A k \in 1..Len(resp.data) :
         resp.data[k].userId = Val(resp.user).id
  /\ (resp.route = "getTodo" /\ IsSome(resp.user)
        /\ ForeignTodo(TodosOf(resp.dbType), resp.tid, Val(resp.user).id)) =>
       resp.status = 404

\* a user asked for another user's todo by its id and got 404
C7_Witness ==
  /\ resp.route = "getTodo"
  /\ resp.status = 404
  /\ IsSome(resp.user)
  /\ ForeignTodo(TodosOf(resp.dbType), resp.tid, Val(resp.user).id)

\* a boolean as the store of this dbType keeps it
StoredBool(dbType, v) == IF dbType = "sqlite" THEN (IF v THEN 1 ELSE 0) ELSE v

\* before and after a PUT with body b: id, owner and createdAt are kept,
\* a field absent from b is kept, and task, completed and priority take
\* the value b gives them
PartialReplace(old, new, b, dbType) ==
  /\ new.id = old.id
  /\ new.userId = old.userId
  /\ new.createdAt = old.createdAt
  /\ b.task = None => new.task = old.task
  /\ b.description = None => new.description = old.description
  /\ b.completed = None => new.completed = old.completed
  /\ b.priority = None => new.priority = old.priority
  /\ b.dueDate = None => new.dueDate = old.dueDate
  /\ b.tags = None => new.tags = old.tags
  /\ IsSome(b.task) => new.task = Trim(Val(b.task))
  /\ IsSome(b.completed) =>
       new.completed = StoredBool(dbType, Val(b.completed))
  /\ IsSome(b.priority) => new.priority = Val(b.priority)

\* the step from list seq to list after is a partial replace of the todo
\* the URL id names
PutEffect(seq, after, r) ==
  /\ Len(after) = Len(seq)
  /\ \E k \in 1..Len(seq) : IdToString(seq[k].id) = r.tid
  /\ \A k \in 1..Len(seq) :
       IF IdToString(seq[k].id) = r.tid
       THEN PartialReplace(seq[k], after[k], r.body, r.dbType)
       ELSE after[k] = seq[k]

\* C8: a PUT /api/todos/:id that updates a todo (answered 200, or, in the
\* SQLite store, applied by the UPDATE statement) changes only the fields
\* its body holds and updatedAt, keeps id, owner and createdAt, and
\* leaves every other todo unchanged.
C8_PutIsPartialReplace ==
  [][ (resp'.route = "updateTodo" /\ resp'.status \in {200, 0}) =>
        /\ resp'.dbType = "memory" =>
             /\ PutEffect(memoryTodos, memoryTodos', resp')
             /\ UNCHANGED <<sqlTodos, mongoTodos>>
        /\ resp'.dbType = "mongodb" =>
             /\ PutEffect(mongoTodos, mongoTodos', resp')
             /\ UNCHANGED <<sqlTodos, memoryTodos>>
        /\ resp'.dbType = "sqlite" =>
             /\ PutEffect(sqlTodos, sqlTodos', resp')
             /\ UNCHANGED <<memoryTodos, mongoTodos>> ]_vars

\* a PUT answered 200 left a todo whose updatedAt is later than its
\* createdAt, next to another todo
C8_Witness ==
  /\ resp.route = "updateTodo"
  /\ resp.status = 200
  /\ Len(TodosOf(resp.dbType)) > 1
  /\ \E k \in 1..Len(TodosOf(resp.dbType)) :
       /\ IdToString(TodosOf(resp.dbType)[k].id) = resp.tid
       /\ TodosOf(resp.dbType)[k].updatedAt
            # TodosOf(resp.dbType)[k].createdAt

\* C10 as stated: while the MongoDB connection is not ready, no request is
\* turned away for lack of a database.
C10_NotRejectedForLackOfDatabase ==
  (resp # NoResp /\ readyState # 1) =>
    /\ resp.status # 503
    /\ resp.error \notin {"Database service unavailable.",
                          "Database not available."}

\* C11 as stated: the JSON body of every response has a boolean success
\* field, with a data field when success is true and an error field when
\* it is false.
C11_EveryResponseIsEnvelope ==
  (resp # NoResp /\ resp.status # 0) =>
    /\ "success" \in resp.keys
    /\ resp.success => "data" \in resp.keys
    /\ ~resp.success => "error" \in resp.keys

\* the tasks of a list of todos are at least 3 characters long
LongTasks(seq) == \A k \in 1..Len(seq) : Len(Trim(seq[k].task)) >= 3

\* C12 as stated: every todo stored in the in-memory list or in the SQLite
\* table has a priority in {low, medium, high}.
C12_PriorityInEnum ==
  /\ \A k \in 1..Len(memoryTodos) : memoryTodos[k].priority \in Priorities
  /\ \A k \in 1..Len(sqlTodos) : sqlTodos[k].priority \in Priorities

\* C13 as stated: every stored todo, in whichever store, has a task of at
\* least 3 characters after trimming.
C13_TaskAtLeast3 ==
  LongTasks(memoryTodos) /\ LongTasks(sqlTodos) /\ LongTasks(mongoTodos)

AdminRoutes == {"adminUsers", "adminTodos"}

\* C14: a route behind authorize('admin') answers 200 only to a user whose
\* role is admin; an authenticated user with another role is answered 403
\* before the handler runs, and no response to anyone but an admin carries
\* user or todo data.
C14_AdminOnly ==
  resp.route \in AdminRoutes =>
    /\ resp.status = 200 => (IsSome(resp.user) /\ Val(resp.user).role = "admin")
    /\ (IsSome(resp.user) /\ Val(resp.user).role # "admin") =>
         (resp.status = 403 /\ ~resp.handlerRan)
    /\ resp.status # 200 =>
         (resp.data = <<>> /\ resp.userKeys = {} /\ "data" \notin resp.keys)

\* a user with role user asked for all todos while a todo is stored and
\* was answered 403
C14_Witness ==
  /\ resp.route = "adminTodos"
  /\ resp.status = 403
  /\ IsSome(resp.user)
  /\ Val(resp.user).role = "user"
  /\ TodosOf(resp.dbType) # <<>>

\* the requester's todos in the store the request was served from
Mine(r) ==
  SelectSeq(TodosOf(r.dbType), LAMBDA t : t.userId = Val(r.user).id)

HowMany(seq, P(_)) == Len(SelectSeq(seq, P))

\* C15 as stated: GET /api/todos/stats with a valid token is answered 200
\* with total, completed, pending, highPriority, mediumPriority and
\* lowPriority each the number of the requester's stored todos with that
\* property.
C15_StatsOfRequester ==
  (resp.route = "stats" /\ IsSome(resp.user)) =>
    /\ resp.status = 200
    /\ resp.data =
         << [total |-> Len(Mine(resp)),
             completed |-> HowMany(Mine(resp),
                 LAMBDA t : t.completed = StoredBool(resp.dbType, TRUE)),
             pending |-> HowMany(Mine(resp),
                 LAMBDA t : t.completed = StoredBool(resp.dbType, FALSE)),
             highPriority |-> HowMany(Mine(resp), LAMBDA t : t.priority = "high"),
             mediumPriority |-> HowMany(Mine(resp),
                 LAMBDA t : t.priority = "medium"),
             lowPriority |-> HowMany(Mine(resp), LAMBDA t : t.priority = "low")] >>

\* a returned todo matches the filters of the query
MatchesQuery(t, q, true, false) ==
  /\ IsSome(q.completed) =>
       t.completed = (IF Val(q.completed) = "true" THEN true ELSE false)
  /\ IsSome(q.priority) => t.priority = Val(q.priority)
  /\ Truthy(q.search) => Contains(t.task, Val(q.search))

\* C16 as stated: GET /api/todos returns at most limit todos, each owned
\* by the requester and matching the completed, priority and search
\* filters; pagination.total is the number of the requester's stored todos
\* that match the filters and pagination.pages is ceil(total / limit), in
\* the MongoDB and in the SQLite backend alike.
C16_ListIsFilteredAndCounted ==
  (resp.route = "listTodos" /\ resp.status = 200) =>
    LET q == resp.query
        matching ==
          SelectSeq(Mine(resp), LAMBDA t :
            MatchesQuery(t, q, StoredBool(resp.dbType, TRUE),
                         StoredBool(resp.dbType, FALSE)))
    IN /\ Len(resp.data) <= resp.pagination.limit
       /\ \A k \in 1..Len(resp.data) :
            /\ resp.data[k].userId = Val(resp.user).id
            /\ MatchesQuery(resp.data[k], q, TRUE, FALSE)
       /\ resp.pagination.total = Len(matching)
       /\ resp.pagination.pages * resp.pagination.limit >= Len(matching)
       /\ (resp.pagination.pages - 1) * resp.pagination.limit < Len(matching)
            \/ (resp.pagination.pages = 0 /\ matching = <<>>)

\* a registration body with a missing field, a password that differs from
\* confirmPassword or is shorter than 6 characters, or an email that does
\* not match the pattern
InvalidRegistration(b) ==
  \/ None \in {b.name, b.email, b.password, b.confirmPassword}
  \/ b.password # b.confirmPassword
  \/ Len(Val(b.password)) < 6
  \/ ~emailRegexTest(Val(b.email))

\* C17: a registration request with such a body is answered 400, adds no
\* user to any store, suspends no request and issues no token.
C17_InvalidRegistrationRejected ==
  [][ (resp'.route = "register" /\ resp' # resp
         /\ InvalidRegistration(resp'.body)) =>
        /\ resp'.status = 400
        /\ resp'.token = NoToken
        /\ UNCHANGED <<memoryUsers, sqlUsers, mongoUsers, issued, inflight>> ]_vars

\* a registration with a malformed email was answered 400 while a user is
\* stored and another registration is suspended
C17_Witness ==
  /\ resp.route = "register"
  /\ resp.status = 400
  /\ resp.body.email = Some(EmailBad)
  /\ TotalUsers > 0
  /\ inflight # <<>>

\* of the three lists of users, the one a request with this dbType is
\* served from
UsersIn(dbType, memory, sqlite, mongodb) ==
  CASE dbType = "memory" -> memory
    [] dbType = "sqlite" -> sqlite
    [] dbType = "mongodb" -> mongodb
    [] OTHER -> <<>>

UsersOf(dbType) == UsersIn(dbType, memoryUsers, sqlUsers, mongoUsers)

\* C18 as stated: a registration that passes validation is answered 201
\* only if it creates the one stored user with its email, and one that
\* finds its email stored already, whether it came after the other request
\* or overlapped with it, is answered 409 without adding a user or issuing
\* a token.
C18_DuplicateIs409 ==
  [][ (resp'.route = "register" /\ resp' # resp
         /\ ~InvalidRegistration(resp'.body)) =>
        LET e == Val(resp'.body.email)
            had == IsSome(UserByEmail(UsersOf(resp'.dbType), e))
        IN /\ had =>
                /\ resp'.status = 409
                /\ resp'.token = NoToken
                /\ UNCHANGED <<memoryUsers, sqlUsers, mongoUsers, issued>>
           /\ resp'.status = 201 =>
                /\ ~had
                /\ IsSome(UserByEmail(UsersIn(resp'.dbType, memoryUsers',
                                               sqlUsers', mongoUsers'), e)) ]_vars

\* the user of the list with this email whose hash is the hash of this
\* password, if there is one
Credentialed(users, email, password) ==
  {k \in 1..Len(users) :
     /\ IsSome(email) /\ IsSome(password)
     /\ users[k].email = Val(email)
     /\ users[k].password = hashPassword(Val(password))}

\* the list is unchanged but for the lastLogin of user k
OnlyLastLogin(users, after, k) ==
  /\ Len(after) = Len(users)
  /\ \A j \in 1..Len(users) :
       after[j] = IF j = k THEN [users[j] EXCEPT !.lastLogin = after[j].lastLogin]
                  ELSE users[j]

Accepted(token) ==
  IF server = "day6" THEN protect6(token).status = 0
  ELSE protect(token).status = 0

\* C20: a logout request of either server changes no server state, and
\* every token protect accepted before it protect accepts after it.
C20_LogoutChangesNothing ==
  [][ (resp'.route = "logout" /\ resp' # resp) =>
        /\ UNCHANGED <<conn, stores, now, inflight, issued>>
        /\ \A t \in Tokens : Accepted(t) => Accepted(t)' ]_vars

\* a logout with an issued token was answered 200, and protect still
\* accepts that token
C20_Witness ==
  /\ resp.route = "logout"
  /\ resp.status = 200
  /\ \E i \in issued : i.token = resp.token
  /\ Accepted(resp.token)

\* req.body.task has at least 3 characters after trimming
GoodTask(b) == Truthy(b.task) /\ Len(Trim(Val(b.task))) >= 3

\* the step from list seq to list after adds one todo at the end: it is
\* owned by the requester, not completed, has an id no todo of seq has, and
\* is the todo the response carries; the todos of seq are unchanged
CreateEffect(seq, after, r) ==
  /\ Len(after) = Len(seq) + 1
  /\ SubSeq(after, 1, Len(seq)) = seq
  /\ after[Len(after)].userId = Val(r.user).id
  /\ after[Len(after)].completed = StoredBool(r.dbType, FALSE)
  /\ \A k \in 1..Len(seq) : seq[k].id # after[Len(after)].id
  /\ Len(r.data) = 1
  /\ r.data[1].id = after[Len(after)].id
  /\ r.data[1].task = after[Len(after)].task
  /\ r.data[1].userId = Val(r.user).id
  /\ r.data[1].completed = FALSE

\* the request is answered 201 and its store gains the one todo
Created(r) ==
  /\ r.status = 201
  /\ r.dbType = "memory" =>
       /\ CreateEffect(memoryTodos, memoryTodos', r)
       /\ UNCHANGED <<sqlTodos, mongoTodos>>
  /\ r.dbType = "mongodb" =>
       /\ CreateEffect(mongoTodos, mongoTodos', r)
       /\ UNCHANGED <<sqlTodos, memoryTodos>>
  /\ r.dbType = "sqlite" =>
       /\ CreateEffect(sqlTodos, sqlTodos', r)
       /\ UNCHANGED <<memoryTodos, mongoTodos>>

\* a priority the MongoDB schema refuses
BadPriorityOnMongo(r) ==
  /\ r.dbType = "mongodb"
  /\ IsSome(r.body.priority)
  /\ Val(r.body.priority) \notin Priorities

IdsOf(seq) == {seq[k].id : k \in 1..Len(seq)}

\* the ids of the todos deleted from the store of this dbType: the ids the
\* store gave out and holds no longer
DeletedIds(dbType) ==
  CASE dbType = "memory" ->
         {Num(n) : n \in 4..(nextMemoryId - 1)} \ IdsOf(memoryTodos)
    [] dbType = "sqlite" ->
         {Num(n) : n \in 1..sqlTodoSeq} \ IdsOf(sqlTodos)
    [] dbType = "mongodb" ->
         {Oid(n) : n \in 1..mongoSeq}
           \ (IdsOf(mongoTodos) \cup IdsOf(mongoUsers))
    [] OTHER -> {}

\* the URL id of r names a todo deleted from the store that serves r
NamesDeleted(r) ==
  \E d \in DeletedIds(r.dbType) : IdToString(d) = r.tid

ReadRoutes == {"listTodos", "myTodos", "getTodo", "adminTodos", "todos6",
               "todo6"}

\* the step from list seq to list after removes the todo the URL id of r
\* names, which the requester owned, and nothing else
DeleteEffect(seq, after, r) ==
  \E k \in 1..Len(seq) :
    /\ IdToString(seq[k].id) = r.tid
    /\ seq[k].userId = Val(r.user).id
    /\ after = SubSeq(seq, 1, k - 1) \o SubSeq(seq, k + 1, Len(seq))

\* C22: once its owner deleted a todo (DELETE answered 200, which removes
\* that todo and leaves every other todo unchanged), no read of the store
\* returns it, a read by its id answers 404, and a DELETE of its id
\* answers 404.
C22_DeletedStaysDeleted ==
  /\ []((resp.route \in ReadRoutes /\ resp.status = 200) =>
          \A k \in 1..Len(resp.data) :
            resp.data[k].id \notin DeletedIds(resp.dbType))
  /\ [][ (resp'.route \in {"getTodo", "todo6", "deleteTodo"}
            /\ resp' # resp /\ resp'.handlerRan /\ NamesDeleted(resp')) =>
           resp'.status = 404 ]_vars
  /\ [][ (resp'.route = "deleteTodo" /\ resp'.status = 200) =>
           /\ resp'.dbType = "memory" =>
                /\ DeleteEffect(memoryTodos, memoryTodos', resp')
                /\ UNCHANGED <<sqlTodos, mongoTodos>>
           /\ resp'.dbType = "mongodb" =>
                /\ DeleteEffect(mongoTodos, mongoTodos', resp')
                /\ UNCHANGED <<sqlTodos, memoryTodos>>
           /\ resp'.dbType = "sqlite" =>
                /\ DeleteEffect(sqlTodos, sqlTodos', resp')
                /\ UNCHANGED <<memoryTodos, mongoTodos>> ]_vars

\* the URL id of r names a todo deleted from one of the stores
NamesDeletedAnywhere(r) ==
  \E d \in DeletedIds("memory") \cup DeletedIds("sqlite")
             \cup DeletedIds("mongodb") : IdToString(d) = r.tid

\* C22 as stated, whichever store answers: a read by the id of a deleted
\* todo and a DELETE of that id are answered 404.
C22_DeletedAnswers404 ==
  [][ (resp'.route \in {"getTodo", "todo6", "deleteTodo"}
         /\ resp' # resp /\ NamesDeletedAnywhere(resp')) =>
        resp'.status = 404 ]_vars

\* a second DELETE of a deleted todo of the SQLite store was answered 404
\* while another todo is stored
C22_Witness ==
  /\ resp.route = "deleteTodo"
  /\ resp.status = 404
  /\ resp.dbType = "sqlite"
  /\ resp.handlerRan
  /\ NamesDeleted(resp)
  /\ sqlTodos # <<>>

\* the process is starting up: it has not begun to listen
StartingUp == phase \in {"starting", "ready"}

\* C23: the server begins to listen only after connectDB has returned;
\* while it starts up the process does not end, whatever the outcome of the
\* connection attempt (connected, failed, no URI); and with every outcome
\* it comes to listen.
C23_ListensAfterConnectDB ==
  /\ [][ (phase' = "listening" /\ phase # "listening") => phase = "ready" ]_vars
  /\ [][ StartingUp =>
          (phase' \in {"starting", "ready", "listening"} /\ exitCode' = -1) ]_vars
  /\ (phase = "ready" /\ ~mongoInit) ~> (phase = "listening")
  /\ <>(phase = "listening")

\* the Day 7 server listens after a connection attempt that failed, or
\* without a URI: it uses SQLite
C23_Witness ==
  /\ server = "day7" /\ phase = "listening"
  /\ ~mongoInit /\ sqliteDB /\ readyState = 0 /\ exitCode = -1

\* the callback of server.close has run: the HTTP server is closed and the
\* database connections have been closed after it
ClosingCompleted == closed # <<>>

\* C24: after SIGTERM or SIGINT (once or twice) the process of the Day 7
\* server exits; the database connections are closed only after the HTTP
\* server; and the exit code is 0 when closing completed and 1 when it did
\* not complete before the forced-exit timer fired.
C24_GracefulShutdown ==
  /\ (shutdowns > 0) ~> (phase = "exited")
  /\ [](ClosingCompleted =>
          (closed[1] = "http" /\ phase \in {"closed", "exited"}))
  /\ [](phase = "exited" => (exitCode = 0 <=> ClosingCompleted))

\* C24, as far as the program keeps it: the process exits, the databases
\* are closed after the HTTP server, and the exit code is 0 only when
\* closing completed, and 1 after completed closing only when the callback
\* of server.close ran in the last second before the forced-exit timer.
C24_ShutdownExits ==
  /\ (shutdowns > 0) ~> (phase = "exited")
  /\ [](ClosingCompleted =>
          (closed[1] = "http" /\ phase \in {"closed", "exited"}))
  /\ [](phase = "exited" =>
          /\ exitCode \in {0, 1}
          /\ exitCode = 0 => (ClosingCompleted /\ ~late)
          /\ (exitCode = 1 /\ ClosingCompleted) => late)

\* after two signals the server closed its SQLite handle after the HTTP
\* server and the process exited with code 0
C24_Witness ==
  /\ phase = "exited" /\ exitCode = 0 /\ shutdowns = 2
  /\ closed = <<"http", "sqlite">>

\* the todos of list seq that POST /api/todos created: every todo but the
\* three the Day 6 list holds at load
CreatedIn(seq) ==
  {k \in 1..Len(seq) : seq[k].id \notin {Num(1), Num(2), Num(3)}}

\* response r carries, as its only todo, the todo of list seq that the URL
\* id names, if seq holds a created todo of that id which who asks may read
ReturnsFrom(seq, r) ==
  \A k \in CreatedIn(seq) :
    (IdToString(seq[k].id) = r.tid
       /\ (r.route = "getTodo" => seq[k].userId = r.token.id)) =>
      (r.status = 200 /\ Len(r.data) = 1 /\ r.data[1].id = seq[k].id)

\* the list in response r holds every created todo of list seq
ListsAll(seq, r) ==
  \A k \in CreatedIn(seq) : \E j \in 1..Len(r.data) : r.data[j].id = seq[k].id

\* the owner of a created todo of list seq sent request r
OwnerAsks(seq, r) ==
  /\ r.token.kind = "valid"
  /\ \E k \in CreatedIn(seq) : seq[k].userId = r.token.id

\* C25: as long as a todo created by POST /api/todos is stored (it has not
\* been deleted), a read by its id returns it and the list of all todos
\* holds it, whatever happened to the MongoDB connection in between; on
\* the Day 7 server, where the owner alone reads a todo, the request of
\* the owner reaches the handler.
C25_CreatedStaysReadable ==
  /\ resp.route \in {"todo6", "getTodo"} =>
       /\ ReturnsFrom(memoryTodos, resp)
       /\ ReturnsFrom(sqlTodos, resp)
       /\ ReturnsFrom(mongoTodos, resp)
  /\ resp.route = "getTodo" =>
       ((OwnerAsks(sqlTodos, resp) \/ OwnerAsks(mongoTodos, resp)) =>
          resp.handlerRan)
  /\ resp.route = "todos6" =>
       /\ resp.status = 200
       /\ ListsAll(memoryTodos, resp)
       /\ ListsAll(mongoTodos, resp)

\* C25 within one store: a read served by the store that holds the created
\* todo returns it, and the list served by that store holds it.
C25_ReadableInItsStore ==
  /\ (resp.route \in {"todo6", "getTodo"} /\ resp.handlerRan) =>
       /\ resp.dbType = "memory" => ReturnsFrom(memoryTodos, resp)
       /\ resp.dbType = "sqlite" => ReturnsFrom(sqlTodos, resp)
       /\ (resp.dbType = "mongodb" /\ readyState = 1) =>
            ReturnsFrom(mongoTodos, resp)
  /\ resp.route = "todos6" =>
       /\ resp.status = 200
       /\ resp.dbType = "memory" => ListsAll(memoryTodos, resp)
       /\ resp.dbType = "mongodb" => ListsAll(mongoTodos, resp)

\* the read of a created todo by its id was answered 200 from the memory
\* list of the Day 6 server after the MongoDB connection was lost
C25_Witness ==
  /\ resp.route = "todo6" /\ resp.status = 200 /\ resp.dbType = "memory"
  /\ mongoInit /\ readyState = 0
  /\ \E k \in CreatedIn(memoryTodos) : resp.data[1].id = memoryTodos[k].id
====
